---- MODULE Spec2Model ----
(***************************************************************************)
(* Couchbase -> MongoDB migration (rethat/soft).                           *)
(*                                                                         *)
(* The module models                                                       *)
(*   - the coordinator migrate_bucket_mechoice (count, dispatch to a      *)
(*     ThreadPoolExecutor, as_completed aggregation, summary),             *)
(*   - the page worker process_page_mechoice (read, transform, dedup,     *)
(*     batched write, result),                                             *)
(*   - the three mechoice strategies of MongoDBService,                    *)
(*   - the batch writer MongoDBDataAccess.add_documents, attempt by        *)
(*     attempt, against a destination that rejects duplicate _id values.   *)
(*                                                                         *)
(* The specifications share the actions:                                   *)
(*   Spec         a whole bucket migration job (mig_mechoice.py),           *)
(*   SpecPage     one page processed twice in a row by the page worker,    *)
(*   SpecWriter   one add_documents call on one chunk,                      *)
(*   SpecReader   one get_data_paginated call with failing attempts,        *)
(*   SpecOutage   a job during which the destination fails repeatedly,      *)
(*   SpecWorkers  a job through either entry point (mig_mechoice.py or      *)
(*                main.py) with faults of source and destination,           *)
(*   SpecLive     a job under fair scheduling, for termination,             *)
(*   SpecRecord   one page of one or two rows, over every combination of    *)
(*                the fields a strategy looks at, handed to a strategy,     *)
(*   SpecReadAll  the generator get_all_data_paginated iterated to its end, *)
(*   SpecPreflight  the index pre-flight of a bucket and the start of its   *)
(*                migration,                                                *)
(*   SpecPreflightLive  the same under fair scheduling of the program's     *)
(*                steps,                                                    *)
(*   SpecConvert  one call of _convert_doc_value on a string,               *)
(*   SpecUpsert   one call of upsert_documents.                             *)
(***************************************************************************)
EXTENDS Integers, Sequences, FiniteSets, TLC

VARIABLES
    mode,            \* what runs: "job", "page", "writer", "reader", "record",
                     \* "readall", "preflight", "convert" or "upsert"
    source,          \* the bucket's rows in query order (sequence of records)
    readFail,        \* pages whose every read attempt fails
    countFails,      \* TRUE when the count query raises
    total_count,     \* migrate_bucket_mechoice: total_count
    page_size,       \* page_size argument
    max_workers,     \* max_workers argument
    migration_type,  \* a mechoice strategy, a mode of main.py (MainModes), or
                     \* "rms" (process_rms_data handed the page)
    batch_size,      \* batch_size argument
    pc,              \* coordinator position
    total_pages,     \* migrate_bucket_mechoice: total_pages
    submitted,       \* sequence of the page indices handed to executor.submit
    queue,           \* the executor's work queue (FIFO of page indices)
    wk,              \* per page: the state of its process_page_mechoice call
                     \* (SpecReadAll, SpecPreflight, SpecConvert, SpecUpsert:
                     \* the frame described there)
    collected,       \* pages whose future as_completed has already yielded
    total_processed, \* migrate_bucket_mechoice: total_processed
    failed_pages,    \* migrate_bucket_mechoice: failed_pages (a list)
    completed,       \* migrate_bucket_mechoice: completed
    summary,         \* the emitted summary, or "none"
    dest,            \* destination database: collection name -> set of documents
    dest0,           \* the destination as it was before the job
    nextOid,         \* number of ObjectIds the driver has generated so far
    connFaults,      \* connection-class faults the environment may still inject
    dedupFaults,     \* membership-query faults the environment may still inject
    rejects,         \* source ids whose document the server rejects in a bulk insert
    terminal,        \* source ids whose single-document insert fails
    run,             \* SpecPage: 1 during the first run of the page, 2 in the second
    firstRun,        \* SpecPage: the worker state at the end of the first run
    readFaults       \* transient read faults the environment may still inject

vars == <<mode, source, readFail, countFails, total_count, page_size, max_workers,
          migration_type, batch_size, pc, total_pages, submitted, queue, wk,
          collected, total_processed, failed_pages, completed, summary, dest,
          dest0, nextOid, connFaults, dedupFaults, rejects, terminal, run, firstRun,
          readFaults>>

(***************************************************************************)
(* Bounds of the model.                                                    *)
(***************************************************************************)
MaxTotal == 3        \* largest total_count of a job
MaxPageSize == 2     \* largest page_size of a job
MaxWorkers == 2      \* largest max_workers of a job
MaxPageLen == 2      \* SpecPage: largest number of rows in the page
MaxChunk == 2        \* SpecWriter: largest number of documents in the chunk

(***************************************************************************)
(* Program constants.                                                      *)
(***************************************************************************)
WRITE_MAX_RETRIES == 5   \* add_documents(..., max_retries=5, ...)
WRITE_RETRY_DELAY == 3   \* add_documents(..., retry_delay=3)
READ_MAX_RETRIES == 3    \* process_page_mechoice(..., max_retries: int = 3, ...)
READ_RETRY_DELAY == 2    \* process_page_mechoice(..., retry_delay: int = 2, ...)

BUCKET == "bucket"       \* bucket_name of the job
MigrationTypes == {"keep_structure", "restructure", "missing_type"}
\* main.py: process_page with migrate_keep_structure True / False
MainModes == {"main_keep", "main_rms"}
Collections ==
    {BUCKET, "A", "B", "Count", "Counter", "mechoice_metadata", "K", "Others"}

(***************************************************************************)
(* Source rows.  A row is what CouchbaseDataAccess.get_data returns for    *)
(* "SELECT meta().id, * FROM bucket":                                      *)
(*   pos      the row's position in the bucket (1-based), its identity     *)
(*   isdict   the row is a mapping                                         *)
(*   id       meta().id, a positive number; 0 stands for a missing id      *)
(*   nested   the value under the bucket-name field:                       *)
(*              "map"     a native mapping                                 *)
(*              "str"     a string that json.loads parses to a mapping     *)
(*              "strlz"   a string that parses to a mapping only after     *)
(*                        _normalize_json_string (leading-zero literal)    *)
(*              "strnon"  a string that parses to a non-mapping            *)
(*              "strbad"  a string neither attempt can parse               *)
(*              "num"     some other type                                  *)
(*              "none"    the field is absent                              *)
(*   type     the nested mapping's _type: "" when absent, "FALSY" when it  *)
(*            is there with a value Python treats as false (None, ""),     *)
(*            else the name it holds                                       *)
(*   count, counter   these fields of the nested mapping: "absent", "null" *)
(*            (the field is there and holds None) or "value"               *)
(*   typekey  the nested mapping's typekey, with the values of type        *)
(***************************************************************************)
\* a row whose count and counter fields either hold a value or are absent
Row(isdict, id, nested, type, count, counter) ==
    [pos |-> 0, isdict |-> isdict, id |-> id, nested |-> nested, type |-> type,
     count |-> IF count THEN "value" ELSE "absent",
     counter |-> IF counter THEN "value" ELSE "absent", typekey |-> ""]

\* "if doc_type:", "typekey if typekey else ...": the value is there and true
Truthy(v) == v \notin {"", "FALSY"}

\* "doc_value.get('count') is not None"
NotNone(v) == v = "value"

\* The row kinds the model draws from; the id is filled in from the position.
RowKinds ==
    << Row(TRUE,  1, "map",    "A", FALSE, FALSE),
       Row(TRUE,  1, "str",    "B", FALSE, FALSE),
       Row(TRUE,  1, "map",    "",  TRUE,  TRUE),
       Row(TRUE,  0, "map",    "A", FALSE, FALSE),
       Row(TRUE,  1, "strlz",  "",  FALSE, TRUE),
       Row(TRUE,  1, "map",    "",  FALSE, FALSE),
       Row(FALSE, 1, "map",    "A", FALSE, FALSE),
       Row(TRUE,  1, "none",   "",  FALSE, FALSE),
       Row(TRUE,  1, "strbad", "",  FALSE, FALSE),
       Row(TRUE,  1, "strnon", "",  FALSE, FALSE),
       Row(TRUE,  1, "num",    "",  FALSE, FALSE) >>

\* Row kind k placed at position i of the bucket: meta().id is unique per bucket.
RowAt(k, i) ==
    [RowKinds[k] EXCEPT !.pos = i, !.id = IF RowKinds[k].id = 0 THEN 0 ELSE i]

(***************************************************************************)
(* MongoDBService._convert_doc_value                                       *)
(***************************************************************************)
\* json.loads(doc_value): "mapping", "other" (parsed, not a mapping) or "error"
DirectParse(nested) ==
    CASE nested = "str"    -> "mapping"
      [] nested = "strnon" -> "other"
      [] OTHER             -> "error"

\* json.loads(_normalize_json_string(doc_value))
NormalizedParse(nested) ==
    CASE nested = "str"    -> "mapping"
      [] nested = "strlz"  -> "mapping"
      [] nested = "strnon" -> "other"
      [] OTHER             -> "error"

\* TRUE when _convert_doc_value returns a mapping, FALSE when it returns None
ConvertDocValue(nested) ==
    IF nested = "map" THEN TRUE
    ELSE IF nested \in {"str", "strlz", "strnon", "strbad"}
         THEN IF DirectParse(nested) = "mapping" THEN TRUE
              ELSE IF DirectParse(nested) = "other" THEN FALSE
              ELSE NormalizedParse(nested) = "mapping"
         ELSE FALSE

(***************************************************************************)
(* The per-record part of the three strategies: the destination collection *)
(* of a row, or "" when the row is skipped (skipped_count += 1).           *)
(***************************************************************************)
\* mutant of Usable: the check of the row's id is missing
UsableWithoutId(r) ==
    /\ r.isdict
    /\ r.nested # "none"
    /\ ConvertDocValue(r.nested)

\* the checks the three strategies share: mapping row, id, nested value
Usable(r) ==
    /\ r.isdict
    /\ r.id # 0
    /\ r.nested # "none"
    /\ ConvertDocValue(r.nested)

KeepStructureCollection(r) ==
    IF Usable(r) THEN BUCKET ELSE ""

\* mutant of RestructureCollection: a row without _type is kept, in the
\* fallback collection
RestructureKeepsUntyped(r) ==
    IF ~Usable(r) THEN ""
    ELSE IF Truthy(r.type) THEN r.type ELSE "mechoice_metadata"

RestructureCollection(r) ==
    IF Usable(r) /\ Truthy(r.type) THEN r.type ELSE ""

\* mutant of MissingTypeCollection: no probe for count and counter, no
\* fallback collection
MissingTypeNoProbe(r) ==
    IF Usable(r) /\ Truthy(r.type) THEN r.type ELSE ""

MissingTypeCollection(r) ==
    IF ~Usable(r) THEN ""
    ELSE IF Truthy(r.type) THEN r.type
    ELSE IF NotNone(r.count) THEN "Count"
    ELSE IF NotNone(r.counter) THEN "Counter"
    ELSE "mechoice_metadata"

\* mutant of RmsCollection: no default group
RmsNoDefault(r) ==
    IF ~r.isdict \/ ~ConvertDocValue(r.nested) \/ r.id = 0 THEN ""
    ELSE IF Truthy(r.typekey) THEN r.typekey
    ELSE ""

\* process_rms_data of a service built with mapping_id=True, as main.py
\* builds it (lines 249-299): the group a row is appended to.  A row that is
\* no mapping or whose nested value convert_to_dict cannot turn into a
\* mapping is skipped; rms_dict['_id'] = doc['id'] raises KeyError for a row
\* without id, which the loop's "except Exception" counts as skipped.
RmsCollection(r) ==
    IF ~r.isdict \/ ~ConvertDocValue(r.nested) \/ r.id = 0 THEN ""
    ELSE IF Truthy(r.typekey) THEN r.typekey
    ELSE "Others"

CollectionOf(mtype, r) ==
    CASE mtype = "keep_structure" -> KeepStructureCollection(r)
      [] mtype = "restructure"    -> RestructureCollection(r)
      [] mtype = "missing_type"   -> MissingTypeCollection(r)
      [] mtype = "rms"            -> RmsCollection(r)

\* final_doc: _id is the row's id; src is the position of the row the document
\* was built from; tag is the value of the document's bucket_name field
\* (final_doc['bucket_name'] = bucket_name, rms_dict['bucket_name'] = ...)
FinalDocId(r) == <<"id", r.id>>

FinalDoc(r) == [_id |-> FinalDocId(r), src |-> r.pos, tag |-> BUCKET]

\* the document MongoDBService.add_documents builds (lines 140-186): the
\* nested mapping, or the row without its nested field when that is no
\* mapping, with _id = doc['id']; no field names the source collection
MainDoc(r) == [_id |-> FinalDocId(r), src |-> r.pos, tag |-> ""]

(***************************************************************************)
(* The destination store: insert_many(ordered=False) and insert_one.       *)
(* A stored document is [_id, src, tag]; _id is <<"id", n>> when the client *)
(* supplied it and <<"oid", k>> when the driver generated an ObjectId.      *)
(***************************************************************************)
HasKey(contents, key) == \E s \in contents : s._id = key

\* insert_many(documents, ordered=False): every document is tried in turn; one
\* with a duplicate _id or that the server rejects is reported in writeErrors,
\* the others are inserted.  rej: the source rows the server rejects.
RECURSIVE InsertMany(_, _, _, _, _)
InsertMany(contents, docs, i, failed, rej) ==
    IF i > Len(docs) THEN [contents |-> contents, failed |-> failed]
    ELSE IF HasKey(contents, docs[i]._id) \/ docs[i].src \in rej
         THEN InsertMany(contents, docs, i + 1, failed \cup {i}, rej)
         ELSE InsertMany(contents \cup {docs[i]}, docs, i + 1, failed, rej)

\* retry_doc = documents[i].copy(); retry_doc.pop("_id", None): the driver then
\* generates a fresh ObjectId for it
RetryDoc(doc, oid) == [doc EXCEPT !._id = <<"oid", oid>>]

\* the "for i in failed_indexes" loop of add_documents (lines 85-92), in
\* ascending index order; term: the source rows whose insert_one raises
RECURSIVE SingleRetries(_, _, _, _, _, _)
SingleRetries(contents, docs, failed, oid, ops, term) ==
    IF failed = {} THEN [contents |-> contents, oid |-> oid, ops |-> ops]
    ELSE LET i == CHOOSE x \in failed : \A y \in failed : x <= y
             op == <<"single", i>>
         IN IF docs[i].src \in term
            THEN SingleRetries(contents, docs, failed \ {i}, oid,
                               Append(ops, op), term)
            ELSE SingleRetries(contents \cup {RetryDoc(docs[i], oid + 1)}, docs,
                               failed \ {i}, oid + 1, Append(ops, op), term)

RECURSIVE Pow2(_)
Pow2(n) == IF n = 0 THEN 1 ELSE 2 * Pow2(n - 1)

\* mutant of WriteDelay: linear backoff, as the read path has it
WriteDelayLinear(attempt) == WRITE_RETRY_DELAY * (attempt + 1)

\* delay = retry_delay * (2**attempt)
WriteDelay(attempt) == WRITE_RETRY_DELAY * Pow2(attempt)

\* what follows the BulkWriteError handler of add_documents: the handler ends
\* without return or raise, so the for loop goes on to the next attempt, and
\* the call returns when range(max_retries) is used up
AfterBulkWriteError(attempt) ==
    IF attempt < WRITE_MAX_RETRIES - 1 THEN "next" ELSE "return"

\* mutant of AfterPyMongoError: one attempt more than max_retries
AfterPyMongoErrorExtra(attempt) ==
    IF attempt < WRITE_MAX_RETRIES THEN "next" ELSE "raise"

\* the PyMongoError handler of add_documents (lines 107-127): sleep and go on
\* while attempt < max_retries - 1, raise on the last attempt
AfterPyMongoError(attempt) ==
    IF attempt < WRITE_MAX_RETRIES - 1 THEN "next" ELSE "raise"

\* One iteration of "for attempt in range(max_retries)" of add_documents.
\* fault: "none", or the exception insert_many raises before writing anything:
\* "ssl" / "pymongo" (PyMongoError, with / without a keyword of _is_ssl_error),
\* "unexpected" (any other exception).
\* Result: the collection, the ObjectId counter, the operations issued, and
\* status "return" | "raise" | "next".
AddDocumentsAttempt(contents, docs, attempt, oid, fault, rej, term) ==
    LET pre == << <<"close">>, <<"connect">>, <<"bulk", attempt>> >>
        bulk == InsertMany(contents, docs, 1, {}, rej)
        retried == SingleRetries(bulk.contents, docs, bulk.failed, oid, pre, term)
    IN  CASE fault = "unexpected" ->
               [contents |-> contents, oid |-> oid, ops |-> pre, status |-> "raise",
                error |-> TRUE]
          [] fault \in {"ssl", "pymongo"} ->
               IF AfterPyMongoError(attempt) = "next"
               THEN [contents |-> contents, oid |-> oid,
                     ops |-> Append(pre, <<"sleep", WriteDelay(attempt)>>),
                     status |-> "next", error |-> TRUE]
               ELSE [contents |-> contents, oid |-> oid, ops |-> pre,
                     status |-> "raise", error |-> TRUE]
          [] fault = "none" /\ bulk.failed = {} ->
               [contents |-> bulk.contents, oid |-> oid, ops |-> pre,
                status |-> "return", error |-> FALSE]
          [] OTHER ->
               [contents |-> retried.contents, oid |-> retried.oid,
                ops |-> retried.ops, status |-> AfterBulkWriteError(attempt),
                error |-> FALSE]

(***************************************************************************)
(* The page worker, process_page_mechoice.                                 *)
(***************************************************************************)
Min(a, b) == IF a < b THEN a ELSE b

\* mutant of PageOffset: consecutive pages leave a gap of one row
PageOffsetGap(page) == page * (page_size + 1)

\* CouchbaseService.get_data_paginated: offset = page * page_size
PageOffset(page) == page * page_size

\* mutant of Window: the query without its LIMIT
WindowNoLimit(page) == SubSeq(source, PageOffset(page) + 1, Len(source))

\* the rows of "LIMIT page_size OFFSET offset" over the bucket
Window(page) ==
    SubSeq(source, PageOffset(page) + 1,
           Min(PageOffset(page) + page_size, Len(source)))

\* CouchbaseDataAccess.get_data_paginated as the worker sees it: the rows, or
\* the empty list once every attempt has failed
ReadResult(page) == IF page \in readFail THEN << >> ELSE Window(page)

\* mutant of ReadDelay: the same delay before every retry
ReadDelayConstant(attempt) == READ_RETRY_DELAY

\* wait_time = retry_delay * (attempt + 1)
ReadDelay(attempt) == READ_RETRY_DELAY * (attempt + 1)

\* mutant of AfterReadError: the loop allows one attempt too many
AfterReadErrorExtra(attempt) ==
    IF attempt < READ_MAX_RETRIES THEN "next" ELSE "return"

\* what follows a failed get_data in the retry loop of get_data_paginated:
\* sleep and go on to the next attempt, or give up on the last one
AfterReadError(attempt) ==
    IF attempt < READ_MAX_RETRIES - 1 THEN "next" ELSE "return"

\* One iteration of "for attempt in range(max_retries)" of
\* CouchbaseDataAccess.get_data_paginated (lines 458-482).  fails: get_data
\* raises in this attempt.  Result: status "return" | "next", the rows
\* returned, the sleeps made, and whether the loop gave up.
ReadAttempt(page, attempt, fails) ==
    IF ~fails
    THEN [status |-> "return", rows |-> Window(page), sleeps |-> << >>,
          gave_up |-> FALSE]
    ELSE IF AfterReadError(attempt) = "next"
    THEN [status |-> "next", rows |-> << >>, sleeps |-> <<ReadDelay(attempt)>>,
          gave_up |-> FALSE]
    ELSE [status |-> "return", rows |-> << >>, sleeps |-> << >>,
          gave_up |-> TRUE]

\* CouchbaseService.get_data_paginated (lines 74-77): what the page worker
\* gets for the rows of the data access layer, "None" or "rows"
ServiceResult(rows) == IF rows = << >> THEN "None" ELSE "rows"

\* the "for doc in data" loop of a strategy: collection_groups in insertion
\* order, as a sequence of [name, docs]
RECURSIVE GroupRows(_, _, _, _)
GroupRows(mtype, data, i, groups) ==
    IF i > Len(data) THEN groups
    ELSE LET c == CollectionOf(mtype, data[i])
             d == FinalDoc(data[i])
         IN IF c = "" THEN GroupRows(mtype, data, i + 1, groups)
            ELSE IF \E g \in 1..Len(groups) : groups[g].name = c
            THEN GroupRows(mtype, data, i + 1,
                     [g \in 1..Len(groups) |->
                        IF groups[g].name = c
                        THEN [groups[g] EXCEPT !.docs = Append(@, d)]
                        ELSE groups[g]])
            ELSE GroupRows(mtype, data, i + 1,
                           Append(groups, [name |-> c, docs |-> <<d>>]))

\* skipped_count after the loop
SkippedCount(mtype, data) ==
    Cardinality({i \in 1..Len(data) : CollectionOf(mtype, data[i]) = ""})

\* success_count = len(page_data)  ("Service handles counting internally")
SuccessCount(w) == Len(w.data)

\* mutant of DuplicateQueries: one request per candidate document
DuplicateQueriesPerDoc(docs) == Len(docs)

\* the find requests one call of _check_duplicates_batch issues: none for an
\* empty doc_ids (lines 375-376), else one find with $in (lines 381-384)
DuplicateQueries(docs) == IF docs = << >> THEN 0 ELSE 1

\* mutant of CheckDuplicatesBatch: the query result is dropped
CheckDuplicatesNothing(contents, docs, faulty) == {}

\* _check_duplicates_batch: the _id values of doc_ids found in the collection;
\* set() when the query raises
CheckDuplicatesBatch(contents, docs, faulty) ==
    IF faulty THEN {}
    ELSE {docs[i]._id : i \in {j \in 1..Len(docs) : HasKey(contents, docs[j]._id)}}

\* mutant of UniqueDocs: nothing is filtered out
UniqueDocsAll(docs, existing_ids) == docs

\* unique_docs = [doc for doc in docs if doc['_id'] not in existing_ids]
UniqueDocs(docs, existing_ids) ==
    SelectSeq(docs, LAMBDA d : d._id \notin existing_ids)

\* batch = unique_docs[i:i+batch_size]
Batch(unique_docs, i) ==
    SubSeq(unique_docs, i + 1, Min(i + batch_size, Len(unique_docs)))

IdleWorker ==
    [pc |-> "idle", data |-> << >>, groups |-> << >>, gi |-> 0, unique |-> << >>,
     ci |-> 0, attempt |-> 0, last_error |-> FALSE, result |-> -1, skipped |-> 0,
     written |-> 0, queries |-> 0, ops |-> << >>, faulted |-> FALSE,
     raised |-> FALSE, starts |-> 0, rattempt |-> 0, reads |-> 0,
     sleeps |-> << >>, gave_up |-> FALSE, page_data |-> "unset",
     faults |-> << >>, escaped |-> FALSE, client |-> FALSE, cluster |-> FALSE,
     unclosed |-> 0]

\* MongoDBDataAccess.connect (lines 24-43): self.client = MongoClient(...);
\* a client that is still referenced by self.client is replaced without
\* being closed
Connect(w) ==
    [w EXCEPT !.unclosed = IF w.client THEN @ + 1 ELSE @, !.client = TRUE]

\* MongoDBDataAccess.close (lines 51-56): if self.client: close it, set None
Close(w) == [w EXCEPT !.client = FALSE]

\* CouchbaseDataAccess.connect (line 49) and close (lines 76-80)
ClusterConnect(w) ==
    [w EXCEPT !.unclosed = IF w.cluster THEN @ + 1 ELSE @, !.cluster = TRUE]

ClusterClose(w) == [w EXCEPT !.cluster = FALSE]

\* the finally block of add_documents (lines 132-134) after an attempt
AfterAttemptClose(w, attempt) ==
    IF attempt < WRITE_MAX_RETRIES - 1 \/ w.last_error THEN Close(w) ELSE w

Running == {p \in DOMAIN wk : wk[p].pc \in {"read", "dedup", "write"}}

\* The finally block of the page worker.  main.process_page runs
\* "del cb_service, mongo_service, page_data" (line 75), which raises
\* UnboundLocalError when page_data was never bound; the exception replaces
\* the return value.  process_page_mechoice closes the two data access
\* objects (lines 97-102); before that the strategy, and add_documents of
\* MongoDBService for main.py, close mongo_dal in their own finally blocks.
Cleanup(w) ==
    IF migration_type \in MainModes /\ w.page_data = "unset"
    THEN [ClusterClose(Close(w)) EXCEPT !.escaped = TRUE, !.result = -1]
    ELSE ClusterClose(Close(w))

\* the worker leaves the strategy normally: return (page, success_count)
Finish(w) == Cleanup([w EXCEPT !.pc = "done", !.result = SuccessCount(w)])

\* mutant of Fail: the exception is not caught in the page worker
FailEscapes(w) == [w EXCEPT !.pc = "done", !.raised = TRUE, !.escaped = TRUE]

\* the strategy raised: return (page, 0)
Fail(w) == Cleanup([w EXCEPT !.pc = "done", !.result = 0, !.raised = TRUE])

\* after a destination group is finished: the next group, or the end of the
\* strategy
NextGroup(w) ==
    IF w.gi < Len(w.groups)
    THEN IF migration_type = "rms"
         \* "for group_key, group_value in group.items()": no membership query
         THEN [w EXCEPT !.pc = "write", !.gi = @ + 1,
                        !.unique = w.groups[w.gi + 1].docs, !.ci = 0,
                        !.attempt = 0, !.last_error = FALSE]
         ELSE [w EXCEPT !.pc = "dedup", !.gi = @ + 1, !.unique = << >>, !.ci = 0]
    ELSE Finish(w)

\* mutant of PoolHasRoom: a thread per submitted page
PoolUnbounded == TRUE

\* ThreadPoolExecutor(max_workers): a worker thread exists for a queued page
\* only while fewer than max_workers pages are being processed
PoolHasRoom == Cardinality(Running) < max_workers

\* mutant of NoData: the result of the read is not examined
NoDataNever(w) == FALSE

\* "if page_data is None or len(page_data) == 0" (mig_mechoice.py:65) and
\* "if page_data is None" (main.py:57); the service never returns an empty list
NoData(w) == w.page_data = "None"

\* process_page_mechoice after get_data_paginated has returned (lines 65-66)
\* up to the end of the strategy's "for doc in data" loop
MechoiceAfterRead(w, rows) ==
    LET groups == GroupRows(migration_type, rows, 1, << >>)
        w0 == [w EXCEPT !.data = rows, !.page_data = ServiceResult(rows),
                        !.groups = groups,
                        !.skipped = SkippedCount(migration_type, rows)]
    IN  IF NoData(w0)
        THEN Cleanup([w0 EXCEPT !.pc = "done", !.result = 0])
        ELSE IF groups = << >> THEN Finish(w0)
        ELSE [w0 EXCEPT !.pc = "dedup", !.gi = 1]

\* MongoDBService.add_documents with mapping_id=True, lines 110-190: the rows
\* that are mappings become documents, whatever their nested value is
MainDocs(rows) ==
    [i \in 1..Len(SelectSeq(rows, LAMBDA r : r.isdict)) |->
        MainDoc(SelectSeq(rows, LAMBDA r : r.isdict)[i])]

\* document['_id'] = doc['id'] (line 172) raises KeyError for a mapping row
\* without id; nothing in the loop catches it
MainTransformRaises(rows) ==
    \E i \in 1..Len(rows) : rows[i].isdict /\ rows[i].id = 0

\* main.process_page after get_data_paginated has returned (lines 57-63).
\* migrate_keep_structure: MongoDBService.add_documents up to its call of
\* mongo_dal.add_documents (the whole page is one chunk, no membership query).
\* Otherwise process_rms_data(bucket_name, page_data) is called with one
\* argument too few for (bucket_name, page, data): TypeError.
MainAfterRead(w, rows) ==
    LET docs == MainDocs(rows)
        w0 == [w EXCEPT !.data = rows, !.page_data = ServiceResult(rows),
                        !.skipped = Len(rows) - Len(docs)]
    IN  IF NoData(w0)
        THEN Cleanup([w0 EXCEPT !.pc = "done", !.result = 0])
        ELSE IF migration_type = "main_rms" THEN Fail([w0 EXCEPT !.skipped = 0])
        ELSE IF MainTransformRaises(rows) THEN Fail(w0)
        ELSE IF docs = << >> THEN Finish(w0)
        ELSE [w0 EXCEPT !.pc = "write", !.groups = <<[name |-> BUCKET, docs |-> docs]>>,
                        !.gi = 1, !.unique = docs, !.ci = 0, !.attempt = 0]

\* process_rms_data(bucket_name, page, data) handed the rows of the page: the
\* "for doc in data" loop (lines 249-299); the groups that got a document are
\* then written in insertion order (lines 308-312)
RmsAfterRead(w, rows) ==
    LET groups == GroupRows("rms", rows, 1, << >>)
        w0 == [w EXCEPT !.data = rows, !.page_data = ServiceResult(rows),
                        !.groups = groups, !.skipped = SkippedCount("rms", rows)]
    IN  IF groups = << >> THEN Finish(w0)
        ELSE [w0 EXCEPT !.pc = "write", !.gi = 1, !.unique = groups[1].docs,
                        !.ci = 0, !.attempt = 0]

\* the page worker the job submits: main.process_page or process_page_mechoice
AfterRead(w, rows) ==
    IF migration_type \in MainModes THEN MainAfterRead(w, rows)
    ELSE IF migration_type = "rms" THEN RmsAfterRead(w, rows)
    ELSE MechoiceAfterRead(w, rows)

\* one attempt of the page's read and what the worker does with its outcome
ReadStep(p, w, faulty) ==
    LET r == ReadAttempt(p, w.rattempt, p \in readFail \/ faulty)
        \* get_data: connect, and close in its finally block (lines 186-188)
        w0 == ClusterClose(ClusterConnect(w))
        w1 == [w0 EXCEPT !.reads = @ + 1, !.sleeps = @ \o r.sleeps,
                         !.gave_up = r.gave_up]
    IN  IF r.status = "next" THEN [w1 EXCEPT !.pc = "read", !.rattempt = @ + 1]
        ELSE AfterRead(w1, r.rows)

\* A pool thread takes the oldest queued page and runs process_page_mechoice
\* through the first attempt of the read (lines 53-63).
WorkerFetch(p) ==
    /\ queue # << >> /\ Head(queue) = p
    /\ PoolHasRoom
    /\ queue' = Tail(queue)
    /\ \E faulty \in BOOLEAN :
         /\ faulty => readFaults > 0
         /\ readFaults' = IF faulty THEN readFaults - 1 ELSE readFaults
         /\ wk' = [wk EXCEPT ![p] =
                     ReadStep(p, [IdleWorker EXCEPT !.starts = wk[p].starts + 1],
                              faulty)]
    /\ UNCHANGED <<mode, source, readFail, countFails, total_count, page_size,
                   max_workers, migration_type, batch_size, pc, total_pages,
                   submitted, collected, total_processed, failed_pages, completed,
                   summary, dest, dest0, nextOid, connFaults, dedupFaults, rejects,
                   terminal, run, firstRun>>

\* a later attempt of the page's read, after the sleep
WorkerRead(p) ==
    /\ wk[p].pc = "read"
    /\ \E faulty \in BOOLEAN :
         /\ faulty => readFaults > 0
         /\ readFaults' = IF faulty THEN readFaults - 1 ELSE readFaults
         /\ wk' = [wk EXCEPT ![p] = ReadStep(p, wk[p], faulty)]
    /\ UNCHANGED <<mode, source, readFail, countFails, total_count, page_size,
                   max_workers, migration_type, batch_size, pc, total_pages,
                   submitted, queue, collected, total_processed, failed_pages,
                   completed, summary, dest, dest0, nextOid, connFaults,
                   dedupFaults, rejects, terminal, run, firstRun>>

\* The membership query and the filter of one destination group
\* (e.g. process_mechoice_restructure lines 564-576).
WorkerDedup(p) ==
    /\ wk[p].pc = "dedup"
    /\ \E faulty \in BOOLEAN :
         /\ faulty => dedupFaults > 0
         /\ dedupFaults' = IF faulty THEN dedupFaults - 1 ELSE dedupFaults
         /\ LET w == wk[p]
                g == w.groups[w.gi]
                existing_ids == CheckDuplicatesBatch(dest[g.name], g.docs, faulty)
                unique_docs == UniqueDocs(g.docs, existing_ids)
                \* connect (line 379), finally close (line 391)
                w0 == Close(Connect(w))
                w1 == [w0 EXCEPT !.queries = @ + DuplicateQueries(g.docs),
                                 !.unique = unique_docs,
                                 !.faulted = @ \/ faulty]
            IN wk' = [wk EXCEPT ![p] =
                        IF unique_docs = << >> THEN NextGroup(w1)
                        ELSE [w1 EXCEPT !.pc = "write", !.ci = 0, !.attempt = 0,
                                        !.last_error = FALSE]]
    /\ UNCHANGED <<mode, source, readFail, countFails, total_count, page_size,
                   max_workers, migration_type, batch_size, pc, total_pages,
                   submitted, queue, collected, total_processed, failed_pages,
                   completed, summary, dest, dest0, nextOid, connFaults, rejects,
                   terminal, run, firstRun, readFaults>>

\* the faults the environment may inject into one bulk attempt
WriteFaults == {"none", "ssl", "pymongo", "unexpected"}

\* One attempt of mongo_dal.add_documents(collection_name, batch, ...) on the
\* current batch, and what the strategy and the worker do with its outcome.
WorkerWrite(p) ==
    /\ wk[p].pc = "write"
    /\ \E fault \in WriteFaults :
         /\ fault # "none" => connFaults > 0
         /\ connFaults' = IF fault # "none" THEN connFaults - 1 ELSE connFaults
         /\ LET w == wk[p]
                name == w.groups[w.gi].name
                batch == Batch(w.unique, w.ci)
                r == AddDocumentsAttempt(dest[name], batch, w.attempt, nextOid,
                                         fault, rejects, terminal)
                \* close and connect of lines 78-79, the finally of 132-134
                w0 == Connect(Close(w))
                w1 == AfterAttemptClose([w0 EXCEPT
                         !.ops = IF w.attempt = 0 THEN r.ops ELSE @ \o r.ops,
                         !.faults = IF w.attempt = 0 THEN <<fault>>
                                    ELSE Append(@, fault),
                         !.written = @ + Cardinality(r.contents \ dest[name]),
                         !.last_error = @ \/ r.error,
                         !.faulted = @ \/ fault # "none"], w.attempt)
            IN /\ dest' = [dest EXCEPT ![name] = r.contents]
               /\ nextOid' = r.oid
               /\ wk' = [wk EXCEPT ![p] =
                    CASE r.status = "next" -> [w1 EXCEPT !.attempt = @ + 1]
                      [] r.status = "raise" ->
                           \* process_rms_data logs the failure of a group
                           \* and continues with the next (lines 313-317)
                           IF migration_type = "rms" THEN NextGroup(w1)
                           ELSE Fail(w1)
                      [] r.status = "return" ->
                           IF w.ci + batch_size < Len(w.unique)
                           THEN [w1 EXCEPT !.ci = @ + batch_size, !.attempt = 0,
                                           !.last_error = FALSE]
                           ELSE NextGroup(w1)]
    /\ UNCHANGED <<mode, source, readFail, countFails, total_count, page_size,
                   max_workers, migration_type, batch_size, pc, total_pages,
                   submitted, queue, collected, total_processed, failed_pages,
                   completed, summary, dest0, dedupFaults, rejects, terminal, run,
                   firstRun, readFaults>>

(***************************************************************************)
(* The coordinator, migrate_bucket_mechoice.                               *)
(***************************************************************************)
\* mutant of TotalPages: the page count rounded down
TotalPagesFloor(count, size) ==
    IF count > 0 THEN count \div size ELSE 1

\* mutant of TotalPages: no page for an empty bucket
TotalPagesNoneForEmpty(count, size) == (count + size - 1) \div size

\* total_pages = (total_count + page_size - 1) // page_size if total_count > 0 else 1
TotalPages(count, size) ==
    IF count > 0 THEN (count + size - 1) \div size ELSE 1

\* cb_service.get_total_count(bucket_name) and line 127; a failing count query
\* is caught by the "except Exception" of line 172
Count ==
    /\ mode = "job"
    /\ pc = "counting"
    /\ IF countFails
       THEN /\ pc' = "aborted"
            /\ UNCHANGED <<total_count, total_pages, wk>>
       ELSE /\ pc' = "dispatching"
            /\ total_count' = Len(source)
            /\ total_pages' = TotalPages(Len(source), page_size)
            /\ wk' = [p \in 0..(TotalPages(Len(source), page_size) - 1) |-> IdleWorker]
    /\ UNCHANGED <<mode, source, readFail, countFails, page_size, max_workers,
                   migration_type, batch_size, submitted, queue, collected,
                   total_processed, failed_pages, completed, summary, dest, dest0,
                   nextOid, connFaults, dedupFaults, rejects, terminal, run,
                   firstRun, readFaults>>

\* the next page of "for page in range(total_pages)"
NextPage == Len(submitted)

\* executor.submit(process_page_mechoice, ..., page, ...) for the next page of
\* range(total_pages); after the last one the as_completed loop starts
Submit ==
    /\ mode = "job"
    /\ pc = "dispatching"
    /\ NextPage < total_pages
    /\ submitted' = Append(submitted, NextPage)
    /\ queue' = Append(queue, NextPage)
    /\ wk' = [wk EXCEPT ![NextPage].pc = "queued"]
    /\ pc' = IF NextPage + 1 = total_pages THEN "aggregating" ELSE pc
    /\ UNCHANGED <<mode, source, readFail, countFails, total_count, page_size,
                   max_workers, migration_type, batch_size, total_pages, collected,
                   total_processed, failed_pages, completed, summary, dest, dest0,
                   nextOid, connFaults, dedupFaults, rejects, terminal, run,
                   firstRun, readFaults>>

\* mutant of FailedPagesAfter: a page with no progress is not recorded
FailedPagesNever(failed, page, processed_count) ==
    IF processed_count < 0 THEN Append(failed, page) ELSE failed

\* if processed_count == 0: failed_pages.append(result_page)
FailedPagesAfter(failed, page, processed_count) ==
    IF processed_count = 0 THEN Append(failed, page) ELSE failed

\* mutant of TotalAfter: the earlier total is lost
TotalAfterLost(total, processed_count) == processed_count

\* total_processed += processed_count (line 158), in the coordinator thread
TotalAfter(total, processed_count) == total + processed_count

\* one iteration of "for future in as_completed(future_to_page)" (lines 154-166)
Collect(p) ==
    /\ mode = "job"
    /\ pc = "aggregating"
    /\ p \in DOMAIN wk
    /\ wk[p].pc = "done"
    /\ p \notin collected
    /\ collected' = collected \cup {p}
    /\ IF wk[p].escaped
       THEN \* future.result() raises: lines 164-166
            /\ failed_pages' = Append(failed_pages, p)
            /\ UNCHANGED <<total_processed, completed>>
       ELSE /\ total_processed' = TotalAfter(total_processed, wk[p].result)
            /\ completed' = completed + 1
            /\ failed_pages' = FailedPagesAfter(failed_pages, p, wk[p].result)
    /\ UNCHANGED <<mode, source, readFail, countFails, total_count, page_size,
                   max_workers, migration_type, batch_size, pc, total_pages,
                   submitted, queue, wk, summary, dest, dest0, nextOid, connFaults,
                   dedupFaults, rejects, terminal, run, firstRun, readFaults>>

\* mutant of AllYielded: one result is enough
SomeYielded == collected # {}

\* as_completed has yielded every future of future_to_page (line 154) and
\* the with-block has joined the pool threads (line 135)
AllYielded == collected = DOMAIN wk

\* the with-block is left once every future has been yielded; lines 168-170
\* emit the summary
Summarize ==
    /\ mode = "job"
    /\ pc = "aggregating"
    /\ AllYielded
    /\ pc' = "done"
    /\ summary' = [total_processed |-> total_processed,
                   total_count |-> total_count,
                   failed_pages |-> failed_pages]
    /\ UNCHANGED <<mode, source, readFail, countFails, total_count, page_size,
                   max_workers, migration_type, batch_size, total_pages, submitted,
                   queue, wk, collected, total_processed, failed_pages, completed,
                   dest, dest0, nextOid, connFaults, dedupFaults, rejects, terminal,
                   run, firstRun, readFaults>>

(***************************************************************************)
(* Initial states.                                                         *)
(***************************************************************************)
EmptyDest == [c \in Collections |-> {}]

\* a destination that already holds the documents of the rows at positions
\* pre, as an earlier migration with strategy mtype left them
Preloaded(rows, mtype, pre) ==
    [c \in Collections |->
       {FinalDoc(rows[i]) : i \in {j \in pre \cap (1..Len(rows)) :
                                     CollectionOf(mtype, rows[j]) = c}}]

\* the bucket of a job: n rows whose kinds cycle through RowKinds from kind k
JobSource(n, k) ==
    [i \in 1..n |-> RowAt(((k + i - 2) % Len(RowKinds)) + 1, i)]

InitCommon ==
    /\ total_count = 0
    /\ total_pages = 0
    /\ submitted = << >>
    /\ collected = {}
    /\ total_processed = 0
    /\ failed_pages = << >>
    /\ completed = 0
    /\ summary = "none"
    /\ nextOid = 0
    /\ run = 1
    /\ firstRun = IdleWorker

Init ==
    /\ mode = "job"
    /\ pc = "counting"
    /\ InitCommon
    /\ \E n \in 0..MaxTotal, k \in {1, 2} : source = JobSource(n, k)
    /\ page_size \in 1..MaxPageSize
    /\ max_workers \in 1..MaxWorkers
    /\ migration_type \in MigrationTypes
    /\ batch_size \in {1, MaxPageSize}
    /\ readFail \in SUBSET (0..(TotalPages(Len(source), page_size) - 1))
    /\ countFails \in BOOLEAN
    /\ \E pre \in SUBSET {1} : dest0 = Preloaded(source, migration_type, pre)
    /\ dest = dest0
    /\ connFaults \in {0, 1}
    /\ dedupFaults = 0
    /\ readFaults = 0
    /\ rejects = {}
    /\ terminal = {}
    /\ queue = << >>
    /\ wk = << >>

Next ==
    \/ Count
    \/ Submit
    \/ \E p \in DOMAIN wk : WorkerFetch(p)
    \/ \E p \in DOMAIN wk : WorkerRead(p)
    \/ \E p \in DOMAIN wk : WorkerDedup(p)
    \/ \E p \in DOMAIN wk : WorkerWrite(p)
    \/ \E p \in DOMAIN wk : Collect(p)
    \/ Summarize

Spec == Init /\ [][Next]_vars

\* a bucket of n well-formed rows
PlainSource(n) == [i \in 1..n |-> RowAt(1, i)]

(***************************************************************************)
(* SpecOutage: a bucket migration job of well-formed rows during which the *)
(* destination may fail up to max_retries times in a row, so that a chunk  *)
(* can use up the attempts of add_documents.                               *)
(***************************************************************************)
OutageInit ==
    /\ mode = "job"
    /\ pc = "counting"
    /\ InitCommon
    /\ \E n \in 1..(MaxPageSize + 1) : source = PlainSource(n)
    /\ page_size = MaxPageSize
    /\ max_workers \in 1..MaxWorkers
    /\ migration_type = "keep_structure"
    /\ batch_size \in {1, MaxPageSize}
    /\ readFail \in SUBSET {1}
    /\ countFails = FALSE
    /\ dest0 = EmptyDest
    /\ dest = dest0
    /\ connFaults \in {1, WRITE_MAX_RETRIES}
    /\ dedupFaults = 0
    /\ readFaults = 0
    /\ rejects = {}
    /\ terminal = {}
    /\ queue = << >>
    /\ wk = << >>

SpecOutage == OutageInit /\ [][Next]_vars

(***************************************************************************)
(* SpecLive: a bucket migration job whose threads are scheduled: the       *)
(* coordinator and the pool threads are operating-system threads, a sleep  *)
(* ends, and a call of a driver returns or raises, so a step that is        *)
(* possible is eventually taken.  The count query may fail, pages may be    *)
(* unreadable, and the destination may fail max_retries times in a row.    *)
(***************************************************************************)
LiveInit ==
    /\ mode = "job"
    /\ pc = "counting"
    /\ InitCommon
    /\ \E n \in 0..(MaxPageSize + 1) : source = PlainSource(n)
    /\ page_size = MaxPageSize
    /\ max_workers \in 1..MaxWorkers
    /\ migration_type = "keep_structure"
    /\ batch_size = MaxPageSize
    /\ readFail \in SUBSET {1}
    /\ countFails \in BOOLEAN
    /\ dest0 = EmptyDest
    /\ dest = dest0
    /\ connFaults \in {0, WRITE_MAX_RETRIES}
    /\ dedupFaults = 0
    /\ readFaults = 0
    /\ rejects = {}
    /\ terminal = {}
    /\ queue = << >>
    /\ wk = << >>

SpecLive == LiveInit /\ [][Next]_vars /\ WF_vars(Next)

(***************************************************************************)
(* SpecWorkers: a job of at most two pages run through either entry point, *)
(* mig_mechoice.py (migrate_bucket_mechoice, process_page_mechoice) or      *)
(* main.py (migrate_bucket, process_page; the two coordinators are the     *)
(* same code), with faults of the source and of the destination.            *)
(***************************************************************************)
WorkersInit ==
    /\ mode = "job"
    /\ pc = "counting"
    /\ InitCommon
    /\ \E n \in 0..(MaxPageSize + 1), k \in {1, 3} : source = JobSource(n, k)
    /\ page_size = MaxPageSize
    /\ max_workers \in 1..MaxWorkers
    /\ migration_type \in MigrationTypes \cup MainModes
    /\ batch_size = MaxPageSize
    /\ readFail \in SUBSET (0..(TotalPages(Len(source), page_size) - 1))
    /\ countFails = FALSE
    /\ \E pre \in SUBSET {1} : dest0 = Preloaded(source, "keep_structure", pre)
    /\ dest = dest0
    /\ connFaults \in {0, 1}
    /\ dedupFaults \in {0, 1}
    /\ readFaults \in {0, 1}
    /\ rejects = {}
    /\ terminal = {}
    /\ queue = << >>
    /\ wk = << >>

SpecWorkers == WorkersInit /\ [][Next]_vars

(***************************************************************************)
(* SpecPage: process_page_mechoice called twice in a row on the same page  *)
(* (page 0 of a bucket that fits in one page).                             *)
(***************************************************************************)
\* every bucket of n rows over RowKinds
Sources(n) ==
    {[i \in 1..n |-> RowAt(ks[i], i)] : ks \in [1..n -> 1..Len(RowKinds)]}

QueuedWorker == [IdleWorker EXCEPT !.pc = "queued"]

PageInit ==
    /\ mode = "page"
    /\ pc = "page"
    /\ InitCommon
    /\ \E n \in 1..MaxPageLen : source \in Sources(n)
    /\ page_size = MaxPageLen
    /\ max_workers = 1
    /\ migration_type \in MigrationTypes
    /\ batch_size \in {1, MaxPageLen}
    /\ readFail = {}
    /\ countFails = FALSE
    /\ \E pre \in SUBSET {1} : dest0 = Preloaded(source, migration_type, pre)
    /\ dest = dest0
    /\ connFaults \in {0, 1}
    /\ dedupFaults \in {0, 1}
    /\ readFaults = 0
    /\ rejects = {}
    /\ terminal = {}
    /\ queue = <<0>>
    /\ wk = [p \in {0} |-> QueuedWorker]

\* the same page is handed to the page worker a second time
Rerun ==
    /\ mode = "page"
    /\ run = 1
    /\ wk[0].pc = "done"
    /\ run' = 2
    /\ firstRun' = wk[0]
    /\ wk' = [wk EXCEPT ![0] = QueuedWorker]
    /\ queue' = <<0>>
    /\ UNCHANGED <<mode, source, readFail, countFails, total_count, page_size,
                   max_workers, migration_type, batch_size, pc, total_pages,
                   submitted, collected, total_processed, failed_pages, completed,
                   summary, dest, dest0, nextOid, connFaults, dedupFaults, rejects,
                   terminal, readFaults>>

(***************************************************************************)
(* SpecRecord: one page of one or two rows handed to a strategy, with an   *)
(* empty destination and no fault.  The first row ranges over every        *)
(* combination of the fields the strategies look at.                       *)
(***************************************************************************)
\* the strategies a page can be handed to: the three of mig_mechoice.py,
\* add_documents as main.process_page calls it, and process_rms_data
RecordModes == MigrationTypes \cup {"main_keep", "rms"}

FieldStates == {"absent", "null", "value"}

\* rows whose nested value is or parses to a mapping, with every combination
\* of the fields of that mapping; rows whose nested value is no mapping; and
\* a row that is no mapping itself
RecordRows ==
    {[pos |-> 1, isdict |-> TRUE, id |-> i, nested |-> n, type |-> t,
      count |-> c, counter |-> k, typekey |-> y] :
        i \in {0, 1}, n \in {"map", "str", "strlz"}, t \in {"", "FALSY", "A"},
        c \in FieldStates, k \in FieldStates, y \in {"", "FALSY", "K"}}
    \cup {[RowAt(6, 1) EXCEPT !.id = i, !.nested = n] :
             i \in {0, 1}, n \in {"none", "strbad", "strnon", "num"}}
    \cup {RowAt(7, 1)}

\* the rows a second position of the page is drawn from
Companions == {RowAt(1, 2), [RowAt(6, 2) EXCEPT !.typekey = "K"]}

RecordInit ==
    /\ mode = "record"
    /\ pc = "page"
    /\ InitCommon
    /\ \E r \in RecordRows :
         \/ source = <<r>>
         \/ \E c \in Companions : source = <<r, c>>
    /\ page_size = 2
    /\ max_workers = 1
    /\ migration_type \in RecordModes
    /\ batch_size = 2
    /\ readFail = {}
    /\ countFails = FALSE
    /\ dest0 = EmptyDest
    /\ dest = dest0
    /\ connFaults = 0
    /\ dedupFaults = 0
    /\ readFaults = 0
    /\ rejects = {}
    /\ terminal = {}
    /\ queue = <<0>>
    /\ wk = [p \in {0} |-> QueuedWorker]

RecordNext ==
    \/ WorkerFetch(0)
    \/ WorkerDedup(0)
    \/ WorkerWrite(0)

SpecRecord == RecordInit /\ [][RecordNext]_vars

PageNext ==
    \/ WorkerFetch(0)
    \/ WorkerDedup(0)
    \/ WorkerWrite(0)
    \/ Rerun

SpecPage == PageInit /\ [][PageNext]_vars

(***************************************************************************)
(* SpecWriter: one call of MongoDBDataAccess.add_documents on one chunk of *)
(* documents with distinct _id values, some of which may already be in the *)
(* collection.                                                             *)
(***************************************************************************)
WriterInit ==
    /\ mode = "writer"
    /\ pc = "writer"
    /\ InitCommon
    /\ \E n \in 1..MaxChunk : source = PlainSource(n)
    /\ page_size = Len(source)
    /\ batch_size = Len(source)
    /\ max_workers = 1
    /\ migration_type = "keep_structure"
    /\ readFail = {}
    /\ countFails = FALSE
    /\ \E pre \in SUBSET (1..Len(source)) :
          dest0 = Preloaded(source, migration_type, pre)
    /\ dest = dest0
    /\ connFaults \in 0..WRITE_MAX_RETRIES
    /\ dedupFaults = 0
    /\ readFaults = 0
    /\ rejects \in SUBSET (1..Len(source))
    /\ terminal \in SUBSET (1..Len(source))
    /\ queue = << >>
    /\ LET groups == GroupRows(migration_type, source, 1, << >>)
       IN wk = [p \in {0} |->
                  [IdleWorker EXCEPT !.pc = "write", !.data = source,
                                     !.groups = groups, !.gi = 1,
                                     !.unique = groups[1].docs]]

WriterNext == WorkerWrite(0)

SpecWriter == WriterInit /\ [][WriterNext]_vars

(***************************************************************************)
(* SpecReader: one page read by the page worker, attempt by attempt        *)
(* (CouchbaseService.get_data_paginated over                               *)
(* CouchbaseDataAccess.get_data_paginated), on a bucket of at most one     *)
(* page, possibly empty.                                                   *)
(***************************************************************************)
ReaderInit ==
    /\ mode = "reader"
    /\ pc = "reader"
    /\ InitCommon
    /\ \E n \in 0..MaxPageLen : source \in Sources(n)
    /\ page_size = MaxPageLen
    /\ max_workers = 1
    /\ migration_type \in MigrationTypes
    /\ batch_size = MaxPageLen
    /\ readFail \in SUBSET {0}
    /\ countFails = FALSE
    /\ dest0 = EmptyDest
    /\ dest = dest0
    /\ connFaults = 0
    /\ dedupFaults = 0
    /\ readFaults \in 0..READ_MAX_RETRIES
    /\ rejects = {}
    /\ terminal = {}
    /\ queue = <<0>>
    /\ wk = [p \in {0} |-> QueuedWorker]

ReaderNext ==
    \/ WorkerFetch(0)
    \/ WorkerRead(0)

SpecReader == ReaderInit /\ [][ReaderNext]_vars

(***************************************************************************)
(* Properties of a bucket migration job (Spec).                            *)
(***************************************************************************)
Range(seq) == {seq[i] : i \in 1..Len(seq)}

\* the page a row falls in
PageOfRow(i) == (i - 1) \div page_size

\* the rows of the pages outside a set of pages
RowsOutside(pages) == {i \in 1..Len(source) : PageOfRow(i) \notin pages}

\* dispatched pages that hold no row at all
EmptyPages == {p \in DOMAIN wk : \A i \in 1..Len(source) : PageOfRow(i) # p}

\* no destination fault (membership query, bulk insert) hit any page
NoFault == \A p \in DOMAIN wk : ~wk[p].faulted

JobDone == mode = "job" /\ pc = "done"

\* C1 as stated: with read failures exactly on the pages of readFail and no
\* other error, the job ends with total_processed = the number of rows outside
\* readFail and failed_pages = readFail as a set.
C1_Original ==
    (JobDone /\ NoFault) =>
        /\ total_processed = Cardinality(RowsOutside(readFail))
        /\ Range(failed_pages) = readFail

\* C1 (amended): as C1_Original, except that failed_pages also holds every
\* dispatched page that has no rows (page 0 of an empty bucket), each page once.
C1_Summary ==
    (JobDone /\ NoFault) =>
        /\ total_processed = Cardinality(RowsOutside(readFail))
        /\ Range(failed_pages) = readFail \cup EmptyPages
        /\ Len(failed_pages) = Cardinality(readFail \cup EmptyPages)
        /\ summary.total_processed = total_processed
        /\ summary.failed_pages = failed_pages

\* the spec's scenario scaled down: 3 rows, page size 1, page 2 unreadable
C1_Witness ==
    /\ JobDone /\ NoFault
    /\ Len(source) = 3 /\ page_size = 1 /\ readFail = {2}
    /\ total_processed = 2
    /\ failed_pages = <<2>>

\* ceil(t / p), computed without the code's formula
CeilDiv(t, p) == CHOOSE n \in 0..t : n * p >= t /\ (n - 1) * p < t

\* C2: for total count T > 0 the coordinator submits exactly the pages
\* 0 .. ceil(T/P)-1, in that order and each once; every page is processed by
\* exactly one worker; a finished page is never queued again.
C2_EachPageOnce ==
    (mode = "job" /\ Len(source) > 0) =>
        /\ \A i \in 1..Len(submitted) : submitted[i] = i - 1
        /\ Len(submitted) <= CeilDiv(Len(source), page_size)
        /\ pc \in {"aggregating", "done"} =>
              Len(submitted) = CeilDiv(Len(source), page_size)
        /\ \A p \in DOMAIN wk : wk[p].starts <= 1
        /\ \A p \in DOMAIN wk : wk[p].pc = "done" => p \notin Range(queue)
        /\ pc = "done" =>
              \A p \in 0..(CeilDiv(Len(source), page_size) - 1) :
                 p \in DOMAIN wk /\ wk[p].starts = 1

C2_Witness ==
    /\ JobDone
    /\ Len(source) = 3 /\ page_size = 2
    /\ submitted = <<0, 1>>
    /\ wk[1].result = 0 /\ wk[1].starts = 1

\* C3: at any time at most max_workers pages are being processed.
C3_InFlightBounded ==
    mode = "job" => Cardinality(Running) <= max_workers

\* the pool is full and a page is waiting
C3_Witness ==
    /\ mode = "job"
    /\ max_workers = 2
    /\ Cardinality(Running) = 2
    /\ queue # << >>

\* the destination a fault-free job must leave: what was there before, plus
\* the document of every usable row of every readable page
ExpectedDest ==
    [c \in Collections |->
       dest0[c] \cup
       {FinalDoc(source[i]) :
           i \in {j \in RowsOutside(readFail) :
                    CollectionOf(migration_type, source[j]) = c}}]

\* C4: page independence.  Whatever the pool size and the interleaving of the
\* page workers, a job without destination faults ends with the same documents
\* in every destination collection.
C4_PageIndependence ==
    (JobDone /\ NoFault) => dest = ExpectedDest

\* two pages have written into the same collection from a pool of two threads
C4_Witness ==
    /\ JobDone /\ NoFault
    /\ max_workers = 2
    /\ migration_type = "keep_structure"
    /\ \E p, q \in DOMAIN wk : p # q /\ wk[p].written > 0 /\ wk[q].written > 0
    /\ dest = ExpectedDest

(***************************************************************************)
(* Properties of the page worker (SpecPage).                               *)
(***************************************************************************)
PageDone == mode = "page" /\ wk[0].pc = "done"

\* C5: idempotence of deduplication.  When the first run of a page went
\* through (the strategy did not raise) and no destination fault hits the
\* second run, the second run of the same page writes no document, under each
\* of the three strategies.
C5_SecondRunWritesNothing ==
    (mode = "page" /\ run = 2 /\ ~firstRun.raised /\ ~wk[0].faulted) =>
        wk[0].written = 0

\* the first run wrote, the second run got as far as the end and wrote nothing
C5_Witness ==
    /\ PageDone /\ run = 2
    /\ ~firstRun.faulted /\ ~wk[0].faulted
    /\ firstRun.written = 2
    /\ wk[0].queries > 0
    /\ wk[0].written = 0

\* C6 as stated: the count a page worker returns for a non-empty page is the
\* number of documents it wrote to the destination.
C6_CountIsWritten ==
    (PageDone /\ wk[0].data # << >> /\ ~wk[0].faulted) =>
        wk[0].result = wk[0].written

\* a row as C7 describes a well-formed one: a mapping with an id whose nested
\* value is, or parses to, a mapping; under restructure it also needs the
\* discriminator (spec section 7 counts a missing discriminator as malformed)
WellFormed(r) ==
    /\ r.isdict
    /\ r.id # 0
    /\ r.nested \in {"map", "str", "strlz"}
    /\ migration_type = "restructure" => r.type # ""

WellFormedRows == {i \in 1..Len(source) : WellFormed(source[i])}

MalformedRows == {i \in 1..Len(source) : ~WellFormed(source[i])}

\* rows whose key the destination held before the page was processed
PresentBefore ==
    {i \in 1..Len(source) :
       \E c \in Collections : HasKey(dest0[c], <<"id", source[i].id>>)}

\* C7: malformed-record tolerance.  With a fault-free destination the first
\* run of a page writes exactly its well-formed rows (all N of them when none
\* was in the destination before), counts its M malformed rows as skipped, and
\* the strategy raises nothing.
C7_MalformedTolerance ==
    (PageDone /\ run = 1 /\ ~wk[0].faulted) =>
        /\ wk[0].written = Cardinality(WellFormedRows \ PresentBefore)
        /\ PresentBefore = {} => wk[0].written = Cardinality(WellFormedRows)
        /\ wk[0].skipped = Cardinality(MalformedRows)
        /\ ~wk[0].raised
        /\ wk[0].result >= 0

\* a page with one well-formed and one malformed row under missing_type
C7_Witness ==
    /\ PageDone /\ run = 1 /\ ~wk[0].faulted
    /\ migration_type = "missing_type"
    /\ Cardinality(WellFormedRows) = 1 /\ Cardinality(MalformedRows) = 1
    /\ wk[0].written = 1 /\ wk[0].skipped = 1

(***************************************************************************)
(* Properties of the batch writer (SpecWriter).                            *)
(***************************************************************************)
WriterDone == mode = "writer" /\ wk[0].pc = "done"

\* the call went through the BulkWriteError handler at least once
HadBulkWriteError ==
    \E k \in 1..Len(wk[0].ops) : wk[0].ops[k][1] = "single"

\* the stored documents built from row i
Copies(c, i) == {d \in dest[c] : d.src = i}

\* C8 as stated: after a call that saw a partial bulk failure, every document
\* of the chunk that was not a duplicate and whose single-document insert does
\* not fail is in the collection exactly once.
C8_EachExactlyOnce ==
    (WriterDone /\ HadBulkWriteError /\ ~wk[0].faulted) =>
        \A i \in 1..Len(source) :
           (~HasKey(dest0[BUCKET], <<"id", i>>) /\ i \notin terminal) =>
               Cardinality(Copies(BUCKET, i)) = 1

\* C9 as stated: the single-document writes come after the failed bulk insert
\* and the chunk is not bulk-inserted again after them.
C9_NoBulkAfterSingles ==
    mode = "writer" =>
        \A i, j \in 1..Len(wk[0].ops) :
           (i < j /\ wk[0].ops[i][1] = "single") => wk[0].ops[j][1] # "bulk"

\* C10 as stated: every document the migration persisted carries the id of
\* its source row as _id, and a collection holds at most one document per
\* source row.
C10_IdIsSourceId ==
    mode = "writer" =>
        \A c \in Collections :
           /\ \A d \in dest[c] \ dest0[c] : d._id = <<"id", source[d.src].id>>
           /\ \A d, e \in dest[c] : d.src = e.src => d = e

(***************************************************************************)
(* Properties of the page read (SpecReader).                               *)
(***************************************************************************)
\* the read of page 0 has returned to the page worker
ReadReturned == mode = "reader" /\ wk[0].page_data # "unset"

\* C11: read retry bound.  A read whose first k < max_retries attempts fail
\* and whose next attempt succeeds returns the rows of the page after exactly
\* k + 1 attempts; a read whose max_retries attempts all fail makes exactly
\* max_retries attempts and returns the empty result, once, without raising.
\* (k is the number of sleeps: every failed attempt but the last one sleeps.)
C11_ReadRetryBound ==
    mode = "reader" =>
        /\ wk[0].reads <= READ_MAX_RETRIES
        /\ wk[0].starts <= 1
        /\ (ReadReturned /\ ~wk[0].gave_up) =>
              /\ Len(wk[0].sleeps) < READ_MAX_RETRIES
              /\ wk[0].reads = Len(wk[0].sleeps) + 1
              /\ wk[0].data = Window(0)
        /\ (ReadReturned /\ wk[0].gave_up) =>
              /\ wk[0].reads = READ_MAX_RETRIES
              /\ wk[0].data = << >>
              /\ ~wk[0].raised
              /\ wk[0].pc = "done"
        /\ (ReadReturned /\ 0 \in readFail) => wk[0].gave_up

\* two failed attempts, then the third returns the rows
C11_Witness ==
    /\ ReadReturned
    /\ ~wk[0].gave_up
    /\ Len(wk[0].sleeps) = 2
    /\ wk[0].reads = 3
    /\ wk[0].data = source /\ source # << >>

\* C12 as stated: a page that failed after exhausting its retries does not
\* come back with the value a page without data comes back with (the empty
\* list from the data access layer, None from the service).
C12_StatusDistinguishes ==
    (ReadReturned /\ wk[0].gave_up) =>
        ~(wk[0].data = << >> /\ wk[0].page_data = ServiceResult(<< >>))

(***************************************************************************)
(* Properties of the write retries (SpecOutage, SpecWriter).               *)
(***************************************************************************)
\* the position of bulk attempt a in a sequence of operations
BulkPos(o, a) == CHOOSE i \in 1..Len(o) : o[i] = <<"bulk", a>>

\* the worker of page p gave up its chunk after max_retries failed attempts
Exhausted(p) ==
    /\ Len(wk[p].faults) = WRITE_MAX_RETRIES
    /\ wk[p].faults[WRITE_MAX_RETRIES] \in {"ssl", "pymongo"}

\* C13: on a connection-class failure of a bulk insert add_documents tries the
\* chunk again: every bulk attempt is preceded by close and connect; attempt a
\* (from 0) that fails with a connection error is followed by a sleep of
\* retry_delay * 2^a and then by attempt a + 1, or, if it was the last of the
\* max_retries attempts, by no sleep and the end of the page with result 0;
\* there are at most max_retries attempts; and the job goes on: it can always
\* take a step until it is done, and it ends with every page collected, the
\* page that gave up among the failed pages, and the summary emitted.
C13_ConnectionRetry ==
    mode = "job" =>
      /\ \A p \in DOMAIN wk :
           LET o == wk[p].ops
               f == wk[p].faults
           IN  /\ Len(f) <= WRITE_MAX_RETRIES
               /\ \A a \in 0..(Len(f) - 1) : \E i \in 1..Len(o) : o[i] = <<"bulk", a>>
               /\ \A i \in 1..Len(o) :
                     o[i][1] = "bulk" =>
                        /\ o[i][2] < Len(f)
                        /\ i > 2 /\ o[i - 2] = <<"close">> /\ o[i - 1] = <<"connect">>
               /\ \A i \in 1..Len(o) :
                     o[i][1] = "sleep" => i > 1 /\ o[i - 1][1] = "bulk"
               /\ \A a \in 0..(Len(f) - 1) :
                     f[a + 1] = "ssl" =>
                        LET i == BulkPos(o, a)
                        IN  IF a < WRITE_MAX_RETRIES - 1
                            THEN /\ Len(o) > i
                                 /\ o[i + 1] = <<"sleep", WRITE_RETRY_DELAY * 2^a>>
                                 /\ Len(f) = a + 1 =>
                                       wk[p].pc = "write" /\ wk[p].attempt = a + 1
                                 /\ Len(f) > a + 1 =>
                                       o[i + 4] = <<"bulk", a + 1>>
                            ELSE /\ Len(o) = i
                                 /\ wk[p].pc = "done" /\ wk[p].result = 0
      /\ (\E p \in DOMAIN wk : Exhausted(p)) =>
           /\ pc # "done" => ENABLED Next
           /\ pc = "done" =>
                /\ collected = DOMAIN wk
                /\ summary.failed_pages = failed_pages
                /\ \A p \in DOMAIN wk : Exhausted(p) => p \in Range(failed_pages)

\* one page used up its five attempts on connection errors, another page was
\* written, and the job is done
C13_Witness ==
    /\ JobDone
    /\ \E p, q \in DOMAIN wk :
         /\ Exhausted(p)
         /\ \A a \in 1..WRITE_MAX_RETRIES : wk[p].faults[a] = "ssl"
         /\ wk[q].written > 0
         /\ p \in Range(summary.failed_pages)

\* C14 as stated: add_documents sleeps and tries the chunk again exactly after
\* the errors _is_ssl_error classifies as transient ("ssl"); after a
\* PyMongoError with none of the keywords ("pymongo") there is no retry.
C14_RetryOnlyTransient ==
    mode = "writer" =>
        LET o == wk[0].ops
            f == wk[0].faults
        IN  /\ \A i \in 2..Len(o) :
                  o[i][1] = "sleep" => f[o[i - 1][2] + 1] = "ssl"
            /\ \A a \in 0..(Len(f) - 1) :
                  f[a + 1] = "pymongo" => ~(\E i \in 1..Len(o) : o[i] = <<"bulk", a + 1>>)

(***************************************************************************)
(* Properties of the page workers of both entry points (SpecWorkers).      *)
(***************************************************************************)
\* C15: an exception that reaches the page worker while the page is read,
\* transformed, deduplicated or written ends the page with the result
\* (page, 0); nothing escapes the worker, its finally block included, under
\* process_page_mechoice and under main.process_page; and it stops nothing
\* else: after a page raised a step is always possible until the job is done, and the job ends
\* with every page collected and the pages that raised among the failed ones.
C15_ExceptionsContained ==
    mode = "job" =>
      /\ \A p \in DOMAIN wk :
           /\ ~wk[p].escaped
           /\ wk[p].raised => wk[p].pc = "done" /\ wk[p].result = 0
           /\ wk[p].pc = "done" => wk[p].result >= 0
      /\ (pc \notin {"done", "aborted"} /\ \E p \in DOMAIN wk : wk[p].raised)
            => ENABLED Next
      /\ pc = "done" =>
           /\ collected = DOMAIN wk
           /\ \A p \in DOMAIN wk : wk[p].raised => p \in Range(failed_pages)
           /\ summary.failed_pages = failed_pages

\* main.process_page: one page raised in the write, the other page was
\* written, and the job is done
C15_Witness ==
    /\ JobDone
    /\ migration_type = "main_keep"
    /\ \E p, q \in DOMAIN wk :
         /\ wk[p].raised /\ wk[p].faulted /\ wk[p].result = 0
         /\ wk[q].written > 0 /\ wk[q].result > 0
         /\ p \in Range(failed_pages) /\ q \notin Range(failed_pages)

\* the source positions of the window of page p
PageWindow(p) == (PageOffset(p) + 1)..(PageOffset(p) + page_size)

\* the read of page p has returned without rows: the window was empty, or
\* every attempt failed
ReadGaveNothing(p) ==
    /\ wk[p].reads > 0
    /\ wk[p].pc # "read"
    /\ wk[p].data = << >>

\* C16: when the read of a page yields no data, because the window is empty
\* or because the read failed, the page worker (process_page_mechoice and
\* main.process_page) returns (page, 0) without raising: nothing is
\* transformed, no membership query is made, and no write is attempted.
C16_NoDataNoWork ==
    mode = "job" =>
      \A p \in DOMAIN wk :
        ReadGaveNothing(p) =>
          /\ wk[p].pc = "done"
          /\ wk[p].result = 0
          /\ ~wk[p].raised /\ ~wk[p].escaped
          /\ wk[p].groups = << >> /\ wk[p].skipped = 0
          /\ wk[p].queries = 0
          /\ wk[p].ops = << >> /\ wk[p].written = 0
          /\ \A c \in Collections :
               \A d \in dest[c] \ dest0[c] : d.src \notin PageWindow(p)

\* main.py without original structure: page 1 could not be read and page 0
\* held rows, and both are done
C16_Witness ==
    /\ mode = "job"
    /\ migration_type = "main_rms"
    /\ DOMAIN wk = {0, 1}
    /\ ReadGaveNothing(1) /\ wk[1].gave_up
    /\ wk[0].pc = "done" /\ wk[0].data # << >>

(***************************************************************************)
(* Termination of a job (SpecLive).                                        *)
(***************************************************************************)
\* every retry loop is within its range(max_retries)
LoopsBounded ==
    \A p \in DOMAIN wk :
        /\ wk[p].rattempt < READ_MAX_RETRIES
        /\ wk[p].reads <= READ_MAX_RETRIES
        /\ wk[p].attempt < WRITE_MAX_RETRIES

\* the job has reached Done and has emitted its summary
SummaryEmitted == pc = "done" /\ summary.failed_pages = failed_pages

\* C17 as stated: under any pattern of source and destination failures the
\* job eventually reaches Done and emits its summary.
C17_Original == <>SummaryEmitted

\* C17: every retry loop executes a bounded number of iterations; when the
\* count query succeeds, the job eventually reaches Done and emits its
\* summary under every pattern of page read and destination failures; when
\* the count query fails, the job ends without dispatching a page and
\* without a summary.
C17_Terminates ==
    /\ [](mode = "job" => LoopsBounded)
    /\ (mode = "job" /\ ~countFails) ~> SummaryEmitted
    /\ (mode = "job" /\ countFails) ~> (pc = "aborted" /\ summary = "none" /\ wk = << >>)
    /\ [](mode = "job" /\ countFails => pc # "done")

\* a finished job in which one page used up the read attempts and another
\* used up the write attempts
C17_Witness ==
    /\ JobDone
    /\ SummaryEmitted
    /\ \E p, q \in DOMAIN wk :
         /\ wk[p].gave_up /\ wk[p].reads = READ_MAX_RETRIES
         /\ wk[q].raised /\ wk[q].attempt = WRITE_MAX_RETRIES - 1

(***************************************************************************)
(* The end of the job function.                                            *)
(***************************************************************************)
\* What the caller (migrate_mechoice_data, lines 233-242) observes of
\* migrate_bucket_mechoice: after the summary the function falls off its end,
\* and the "except Exception" of lines 172-173 logs the error without
\* raising it again, so the call returns None on both paths.
JobOutcome ==
    CASE pc = "done" -> "returned"
      [] pc = "aborted" -> "returned"
      [] OTHER -> "running"

\* C18: when the total-count query fails, no page is dispatched and the
\* failure propagates to the caller of the job.
C18_CountFailurePropagates ==
    (mode = "job" /\ countFails /\ pc # "counting") =>
        /\ submitted = << >>
        /\ wk = << >>
        /\ JobOutcome = "raised"

(***************************************************************************)
(* The accumulator of the coordinator (SpecWorkers).                       *)
(***************************************************************************)
RECURSIVE SumOfCounts(_)
\* the sum of the counts returned by the pages of P whose future did not raise
SumOfCounts(P) ==
    IF P = {} THEN 0
    ELSE LET p == CHOOSE x \in P : TRUE
         IN  (IF wk[p].escaped THEN 0 ELSE wk[p].result) + SumOfCounts(P \ {p})

\* C19: at every point of the Aggregating phase, and in every completion
\* order, total_processed is the sum of the counts of the results collected
\* so far, and failed_pages holds exactly the collected pages whose count
\* was 0 or whose future raised, each once.
C19_AccumulatorExact ==
    (mode = "job" /\ pc \in {"aggregating", "done"}) =>
        /\ total_processed = SumOfCounts(collected)
        /\ Range(failed_pages) =
             {p \in collected : wk[p].escaped \/ wk[p].result = 0}
        /\ \A i, j \in 1..Len(failed_pages) :
             failed_pages[i] = failed_pages[j] => i = j
        /\ completed = Cardinality({p \in collected : ~wk[p].escaped})

\* still aggregating, both pages collected: page 1 with count 0, page 0
\* with a positive count
C19_Witness ==
    /\ mode = "job" /\ pc = "aggregating"
    /\ collected = {0, 1}
    /\ wk[1].result = 0 /\ wk[0].result > 0
    /\ failed_pages = <<1>>
    /\ total_processed = wk[0].result

\* C20: the summary is read and emitted only after every submitted page
\* worker has finished: when it has been emitted, every submitted page is
\* done and collected, nothing is queued or running, the summary carries
\* the final accumulator, and no further step (no page result) can follow.
C20_SummaryAfterJoin ==
    (mode = "job" /\ pc = "done") =>
        /\ Range(submitted) = DOMAIN wk
        /\ \A p \in Range(submitted) : wk[p].pc = "done" /\ p \in collected
        /\ queue = << >> /\ Running = {}
        /\ summary.total_processed = SumOfCounts(Range(submitted))
        /\ summary.failed_pages = failed_pages
        /\ ~ENABLED Next

\* the summary of a job of two pages, page 0 with a positive count
C20_Witness ==
    /\ mode = "job" /\ pc = "done"
    /\ Range(submitted) = {0, 1}
    /\ wk[0].result > 0
    /\ summary.total_processed = wk[0].result + wk[1].result

(***************************************************************************)
(* Connections of a page worker (SpecPage).                                *)
(***************************************************************************)
\* C21: when a page worker has returned, on every path, the source
\* connection and every destination connection it opened are closed.
C21_ConnectionsClosed ==
    mode = "page" =>
        (wk[0].pc = "done" =>
            /\ ~wk[0].client
            /\ ~wk[0].cluster
            /\ wk[0].unclosed = 0)

(***************************************************************************)
(* The deduplicator (SpecPage).                                            *)
(***************************************************************************)
\* C22: the deduplicator issues exactly one membership query per destination
\* group of a page, whatever the number of candidate documents: the queries
\* made so far are the groups whose filter is done.  For an empty candidate
\* list it issues no request and returns the empty result.
C22_OneQueryPerGroup ==
    mode = "page" =>
        /\ wk[0].queries = IF wk[0].pc = "dedup" THEN wk[0].gi - 1 ELSE wk[0].gi
        /\ wk[0].queries <= Len(wk[0].groups)
        /\ (wk[0].pc = "done" /\ ~wk[0].raised) => wk[0].queries = Len(wk[0].groups)
        /\ DuplicateQueries(<< >>) = 0
        /\ \A c \in Collections : CheckDuplicatesBatch(dest[c], << >>, FALSE) = {}

\* a finished page whose only group had two candidate documents
C22_Witness ==
    /\ mode = "page"
    /\ wk[0].pc = "done" /\ ~wk[0].raised
    /\ Len(wk[0].groups) = 1
    /\ Len(wk[0].groups[1].docs) = 2
    /\ wk[0].queries = 1

\* the step is a membership query of the page worker that was answered
AnsweredQuery ==
    /\ wk[0].pc = "dedup"
    /\ wk'[0].queries = wk[0].queries + 1
    /\ dedupFaults' = dedupFaults

\* C23: for every destination group whose membership query is answered, the
\* documents handed to the batch writer are exactly the candidates whose _id
\* is not in the destination collection at the time of the query: no present
\* key is passed on, no absent key is dropped, and the writer is given
\* nothing else.
C23_FilterExact ==
    [][mode = "page" =>
        /\ AnsweredQuery =>
             LET g == wk[0].groups[wk[0].gi]
                 absent == {i \in 1..Len(g.docs) : ~HasKey(dest[g.name], g.docs[i]._id)}
                 unique_docs == IF wk'[0].pc = "write" THEN wk'[0].unique ELSE << >>
             IN  /\ \A i \in 1..Len(unique_docs) :
                       ~HasKey(dest[g.name], unique_docs[i]._id)
                 /\ \A i \in absent :
                       \E j \in 1..Len(unique_docs) : unique_docs[j] = g.docs[i]
                 /\ Len(unique_docs) = Cardinality(absent)
        /\ wk[0].pc = "write" =>
             \A c \in Collections : \A d \in dest'[c] \ dest[c] :
                 /\ c = wk[0].groups[wk[0].gi].name
                 /\ \E i \in 1..Len(wk[0].unique) : wk[0].unique[i].src = d.src
    ]_vars

\* after an answered query of a group of two candidates of which one was
\* present: one document is about to be handed to the writer
C23_Witness ==
    /\ mode = "page"
    /\ wk[0].pc = "write" /\ wk[0].attempt = 0 /\ wk[0].ci = 0
    /\ ~wk[0].faulted
    /\ Len(wk[0].groups[wk[0].gi].docs) = 2
    /\ Len(wk[0].unique) = 1
    /\ run = 1

(***************************************************************************)
(* SpecReadAll: the generator CouchbaseDataAccess.get_all_data_paginated   *)
(* driven to its end by a "for" loop.  wk[0] is the generator's frame:     *)
(*   offset, total_fetched, consecutive_empty_pages, max_records (0 for    *)
(*   None), the pages yielded so far as <<offset, rows>>, and fetches, the *)
(*   number of rows each call of get_data_paginated returned, in order,    *)
(*   and offsets, the offset each of these calls was made with.            *)
(***************************************************************************)
MAX_CONSECUTIVE_EMPTY == 10   \* max_consecutive_empty = 10

\* the rows of "LIMIT page_size OFFSET offset" over the bucket
RowsAt(offset) ==
    SubSeq(source, offset + 1, Min(offset + page_size, Len(source)))

ReadAllFrame(max_records) ==
    [pc |-> "loop", offset |-> 0, total_fetched |-> 0,
     consecutive_empty_pages |-> 0, max_records |-> max_records,
     yielded |-> << >>, fetches |-> << >>, offsets |-> << >>]

\* mutant of ReadAllIteration: a short page does not end the loop
ReadAllNoShortStop(f, page_data) ==
    LET f0 == [f EXCEPT !.fetches = Append(@, Len(page_data)),
                        !.offsets = Append(@, f.offset)]
    IN  IF page_data = << >>
        THEN IF f.consecutive_empty_pages + 1 >= MAX_CONSECUTIVE_EMPTY
             THEN [f0 EXCEPT !.consecutive_empty_pages = @ + 1, !.pc = "stopped"]
             ELSE [f0 EXCEPT !.consecutive_empty_pages = @ + 1,
                             !.offset = @ + page_size]
        ELSE LET f1 == [f0 EXCEPT !.consecutive_empty_pages = 0,
                                  !.yielded = Append(@, <<f.offset, page_data>>),
                                  !.total_fetched = @ + Len(page_data),
                                  !.offset = @ + page_size]
             IN  IF f.max_records # 0 /\ f1.total_fetched >= f.max_records
                 THEN [f1 EXCEPT !.pc = "stopped"]
                 ELSE f1

\* one pass of the "while True" loop (lines 522-569) for the page the call of
\* get_data_paginated returned
ReadAllIteration(f, page_data) ==
    LET f0 == [f EXCEPT !.fetches = Append(@, Len(page_data)),
                        !.offsets = Append(@, f.offset)]
    IN  IF page_data = << >>
        THEN IF f.consecutive_empty_pages + 1 >= MAX_CONSECUTIVE_EMPTY
             THEN [f0 EXCEPT !.consecutive_empty_pages = @ + 1, !.pc = "stopped"]
             ELSE [f0 EXCEPT !.consecutive_empty_pages = @ + 1,
                             !.offset = @ + page_size]
        ELSE LET f1 == [f0 EXCEPT !.consecutive_empty_pages = 0,
                                  !.yielded = Append(@, <<f.offset, page_data>>),
                                  !.total_fetched = @ + Len(page_data),
                                  !.offset = @ + page_size]
             IN  IF f.max_records # 0 /\ f1.total_fetched >= f.max_records
                 THEN [f1 EXCEPT !.pc = "stopped"]
                 ELSE IF Len(page_data) < page_size
                 THEN [f1 EXCEPT !.pc = "stopped"]
                 ELSE f1

\* The consumer asks the generator for its next page: the loop runs until it
\* yields or ends.  get_data_paginated returns the rows at the offset, or the
\* empty list when every attempt of the read failed.
ReadAllStep ==
    /\ mode = "readall"
    /\ wk[0].pc = "loop"
    /\ \E failed \in BOOLEAN :
         /\ failed => readFaults > 0
         /\ readFaults' = IF failed THEN readFaults - 1 ELSE readFaults
         /\ wk' = [wk EXCEPT ![0] =
                     ReadAllIteration(wk[0], IF failed THEN << >>
                                             ELSE RowsAt(wk[0].offset))]
    /\ UNCHANGED <<mode, source, readFail, countFails, total_count, page_size,
                   max_workers, migration_type, batch_size, pc, total_pages,
                   submitted, queue, collected, total_processed, failed_pages,
                   completed, summary, dest, dest0, nextOid, connFaults,
                   dedupFaults, rejects, terminal, run, firstRun>>

ReadAllInit ==
    /\ mode = "readall"
    /\ pc = "page"
    /\ InitCommon
    /\ \E n \in 0..(MaxTotal + 1) : source = PlainSource(n)
    /\ page_size \in 1..MaxPageSize
    /\ max_workers = 1
    /\ migration_type = "keep_structure"
    /\ batch_size = 1
    /\ readFail = {}
    /\ countFails = FALSE
    /\ dest0 = EmptyDest
    /\ dest = dest0
    /\ connFaults = 0
    /\ dedupFaults = 0
    /\ readFaults \in 0..MaxPageSize
    /\ rejects = {}
    /\ terminal = {}
    /\ queue = << >>
    /\ \E max_records \in 0..MaxTotal : wk = [p \in {0} |-> ReadAllFrame(max_records)]

ReadAllNext == ReadAllStep

\* the "for" loop of the consumer keeps asking for the next page
SpecReadAll == ReadAllInit /\ [][ReadAllNext]_vars /\ WF_vars(ReadAllNext)

RECURSIVE TrailingEmpty(_)
\* the number of empty fetches at the end of a sequence of fetch sizes
TrailingEmpty(fetches) ==
    IF fetches = << >> \/ fetches[Len(fetches)] # 0 THEN 0
    ELSE 1 + TrailingEmpty(SubSeq(fetches, 1, Len(fetches) - 1))

RECURSIVE RowsYielded(_)
RowsYielded(yielded) ==
    IF yielded = << >> THEN 0
    ELSE Len(yielded[Len(yielded)][2])
         + RowsYielded(SubSeq(yielded, 1, Len(yielded) - 1))

\* one of the three reasons to stop holds after the last fetch
StopReason ==
    LET f == wk[0]
        last == IF f.fetches = << >> THEN -1 ELSE f.fetches[Len(f.fetches)]
    IN  \/ TrailingEmpty(f.fetches) >= MAX_CONSECUTIVE_EMPTY
        \/ last > 0 /\ f.max_records # 0 /\ RowsYielded(f.yielded) >= f.max_records
        \/ last > 0 /\ last < page_size

\* C29: get_all_data_paginated stops exactly when ten consecutive pages were
\* empty or failed, or the maximum number of records is reached, or a page
\* came back with fewer rows than page_size; over a finite source it always
\* stops.
C29_ReadAllStops ==
    /\ [](mode = "readall" => (wk[0].pc = "stopped" <=> StopReason))
    /\ (mode = "readall" => <>(wk[0].pc = "stopped"))

C29_Witness ==
    /\ mode = "readall"
    /\ wk[0].pc = "stopped"
    /\ Len(source) = 2 /\ page_size = 2 /\ wk[0].max_records = 0
    /\ Len(wk[0].yielded) = 1
    /\ TrailingEmpty(wk[0].fetches) = MAX_CONSECUTIVE_EMPTY

(***************************************************************************)
(* SpecPreflight: what migrate_all_buckets (main.py) and                   *)
(* migrate_mechoice_data (mig_mechoice.py) do for one bucket before its    *)
(* migration: create_index / create_index_mechoice, then the migration.    *)
(* wk[0] is the state of that sequence:                                    *)
(*   pc        "create" | "wait" (about to ask for the index status) |     *)
(*             "sleep" | "returned" | "migrating"                          *)
(*   force     create_primary_index(bucket_name, force=...)                *)
(*   index     the primary index on the source: "absent", "deferred",      *)
(*             "building" or "online"                                      *)
(*   faults    how many index statements may still raise                   *)
(*   polls     calls of check_index_status made by the wait loop           *)
(*   observed  a call of check_index_status returned state = True          *)
(***************************************************************************)
MaxPolls == 3    \* polls are counted up to this number

PreflightFrame(force, index, faults) ==
    [pc |-> "create", force |-> force, index |-> index, faults |-> faults,
     polls |-> 0, observed |-> FALSE]

\* CouchbaseService.create_primary_index (couchbase_service.py:33-53).
\* raised: how many of its two passes (the body, then the drop/create/build
\* of the except block) ended with a CouchbaseException.  With two, the
\* exception reaches create_index, whose "except Exception" logs it and
\* returns.  A pass that ends normally leaves the index being built, or as
\* it was when force is false and the index was online already.
AfterCreatePrimaryIndex(f, raised) ==
    LET f0 == [f EXCEPT !.faults = @ - raised]
    IN  IF raised = 2
        THEN [f0 EXCEPT !.pc = "returned",
                        !.index = IF f.force THEN "absent" ELSE @]
        ELSE IF ~f.force /\ raised = 0 /\ f.index = "online"
        THEN [f0 EXCEPT !.pc = "wait"]
        ELSE [f0 EXCEPT !.pc = "wait", !.index = "building"]

\* the first statements of create_index (main.py:151-152) and of
\* create_index_mechoice (mig_mechoice.py:186-187)
CreatePrimaryIndex ==
    /\ mode = "preflight"
    /\ wk[0].pc = "create"
    /\ \E raised \in 0..2 :
         /\ raised <= wk[0].faults
         /\ wk' = [wk EXCEPT ![0] = AfterCreatePrimaryIndex(wk[0], raised)]
    /\ UNCHANGED <<mode, source, readFail, countFails, total_count, page_size,
                   max_workers, migration_type, batch_size, pc, total_pages,
                   submitted, queue, collected, total_processed, failed_pages,
                   completed, summary, dest, dest0, nextOid, connFaults,
                   dedupFaults, rejects, terminal, run, firstRun, readFaults>>

\* "_, state = couchbase_service.check_index_status(bucket_name)" and the
\* test of "while not state" (main.py:153-157): state is True only for an
\* index that is online; a failing status query gives (False, False)
\* (couchbase_dal.py:307-315)
CheckIndexStatus ==
    /\ mode = "preflight"
    /\ wk[0].pc = "wait"
    /\ \E failed \in BOOLEAN :
         /\ failed => wk[0].faults > 0
         /\ LET state == ~failed /\ wk[0].index = "online"
                f == [wk[0] EXCEPT !.polls = Min(@ + 1, MaxPolls),
                                   !.faults = IF failed THEN @ - 1 ELSE @]
            IN wk' = [wk EXCEPT ![0] =
                        IF state THEN [f EXCEPT !.observed = TRUE,
                                                !.pc = "returned"]
                        ELSE [f EXCEPT !.pc = "sleep"]]
    /\ UNCHANGED <<mode, source, readFail, countFails, total_count, page_size,
                   max_workers, migration_type, batch_size, pc, total_pages,
                   submitted, queue, collected, total_processed, failed_pages,
                   completed, summary, dest, dest0, nextOid, connFaults,
                   dedupFaults, rejects, terminal, run, firstRun, readFaults>>

\* time.sleep(1) in the body of "while not state" (main.py:155,
\* mig_mechoice.py:190); the loop has no other exit than state = True
SleepOneSecond ==
    /\ mode = "preflight"
    /\ wk[0].pc = "sleep"
    /\ wk' = [wk EXCEPT ![0].pc = "wait"]
    /\ UNCHANGED <<mode, source, readFail, countFails, total_count, page_size,
                   max_workers, migration_type, batch_size, pc, total_pages,
                   submitted, queue, collected, total_processed, failed_pages,
                   completed, summary, dest, dest0, nextOid, connFaults,
                   dedupFaults, rejects, terminal, run, firstRun, readFaults>>

\* the source finishes building the index
IndexOnline ==
    /\ mode = "preflight"
    /\ wk[0].index = "building"
    /\ wk' = [wk EXCEPT ![0].index = "online"]
    /\ UNCHANGED <<mode, source, readFail, countFails, total_count, page_size,
                   max_workers, migration_type, batch_size, pc, total_pages,
                   submitted, queue, collected, total_processed, failed_pages,
                   completed, summary, dest, dest0, nextOid, connFaults,
                   dedupFaults, rejects, terminal, run, firstRun, readFaults>>

\* the statement after the call of create_index: migrate_bucket(...)
\* (main.py:183-193), migrate_bucket_mechoice(...) (mig_mechoice.py:233-242)
StartMigration ==
    /\ mode = "preflight"
    /\ wk[0].pc = "returned"
    /\ wk' = [wk EXCEPT ![0].pc = "migrating"]
    /\ UNCHANGED <<mode, source, readFail, countFails, total_count, page_size,
                   max_workers, migration_type, batch_size, pc, total_pages,
                   submitted, queue, collected, total_processed, failed_pages,
                   completed, summary, dest, dest0, nextOid, connFaults,
                   dedupFaults, rejects, terminal, run, firstRun, readFaults>>

PreflightInit ==
    /\ mode = "preflight"
    /\ pc = "page"
    /\ InitCommon
    /\ source = << >>
    /\ page_size = 1
    /\ max_workers = 1
    \* main.py calls create_primary_index(bucket_name), mig_mechoice.py
    \* create_primary_index(bucket_name, force=True)
    /\ migration_type \in {"main_keep", "keep_structure"}
    /\ batch_size = 1
    /\ readFail = {}
    /\ countFails = FALSE
    /\ dest0 = EmptyDest
    /\ dest = dest0
    /\ connFaults = 0
    /\ dedupFaults = 0
    /\ readFaults = 0
    /\ rejects = {}
    /\ terminal = {}
    /\ queue = << >>
    /\ \E index \in {"absent", "deferred", "building", "online"},
          faults \in 0..MaxPolls :
         wk = [p \in {0} |->
                 PreflightFrame(migration_type \notin MainModes, index, faults)]

PreflightNext ==
    \/ CreatePrimaryIndex
    \/ CheckIndexStatus
    \/ SleepOneSecond
    \/ IndexOnline
    \/ StartMigration

SpecPreflight == PreflightInit /\ [][PreflightNext]_vars

\* The statements of the pre-flight run one after the other in the calling
\* thread, so each of its steps is taken once it is enabled; nothing obliges
\* the source to bring the index online.
SpecPreflightLive ==
    /\ PreflightInit /\ [][PreflightNext]_vars
    /\ WF_vars(CreatePrimaryIndex) /\ WF_vars(CheckIndexStatus)
    /\ WF_vars(SleepOneSecond) /\ WF_vars(StartMigration)

\* C30: the migration of a bucket starts only after create_index or
\* create_index_mechoice has seen the primary index online.
C30_IndexOnlineFirst ==
    (mode = "preflight" /\ wk[0].pc = "migrating") => wk[0].observed

(***************************************************************************)
(* The per-record claims, checked under SpecRecord.                        *)
(***************************************************************************)
\* the nested value of the row is a mapping or a string holding one (also one
\* with a leading-zero literal)
NestedMapping(r) == r.isdict /\ r.nested \in {"map", "str", "strlz"}

\* the field holds something: an empty or null _type or typekey and a null
\* count or counter count as absent
Present(v) == v \notin {"", "FALSY", "absent", "null"}

\* the destination collections holding a document built from row i
HoldersOf(i) == {c \in Collections : \E d \in dest[c] : d.src = i}

\* the documents built from row i, in any collection
DocsOf(i) == UNION {{d \in dest[c] : d.src = i} : c \in Collections}

\* the strategy has returned
RecordDone(mtype) ==
    mode = "record" /\ migration_type = mtype /\ wk[0].pc = "done"

\* the destination the missing-type ladder names for a row
LadderName(r) ==
    IF Present(r.type) THEN r.type
    ELSE IF Present(r.count) THEN "Count"
    ELSE IF Present(r.counter) THEN "Counter"
    ELSE "mechoice_metadata"

\* C24: under the missing-type strategy every record with an id and a nested
\* mapping ends in exactly one destination: the one its _type names when it
\* has one, else Count when it has a count, else Counter when it has a
\* counter, else the fallback collection; no such record is dropped.
C24_MissingTypeLadder ==
    RecordDone("missing_type") =>
        \A i \in 1..Len(source) :
            (NestedMapping(source[i]) /\ source[i].id # 0) =>
                /\ HoldersOf(i) = {LadderName(source[i])}
                /\ Cardinality(DocsOf(i)) = 1

C24_Witness ==
    /\ RecordDone("missing_type")
    /\ ~Present(source[1].type) /\ ~Present(source[1].count)
    /\ Present(source[1].counter)
    /\ \E d \in dest["Counter"] : d.src = 1
    /\ Len(source) = 2 /\ HoldersOf(2) = {"A"}

\* C25: under the restructure strategy every written document is in the
\* collection its record's _type names and has the record's id as _id; a
\* record whose nested value has no _type is dropped and counted as skipped.
C25_RestructureByType ==
    RecordDone("restructure") =>
        /\ \A c \in Collections : \A d \in dest[c] :
              /\ Present(source[d.src].type) /\ c = source[d.src].type
              /\ d._id = <<"id", source[d.src].id>> /\ source[d.src].id # 0
        /\ \A i \in 1..Len(source) :
              ~Present(source[i].type) => HoldersOf(i) = {}
        /\ wk[0].skipped = Cardinality({i \in 1..Len(source) : HoldersOf(i) = {}})

C25_Witness ==
    /\ RecordDone("restructure")
    /\ Len(source) = 2
    /\ NestedMapping(source[1]) /\ source[1].id # 0 /\ ~Present(source[1].type)
    /\ Present(source[1].count)
    /\ HoldersOf(1) = {} /\ HoldersOf(2) = {"A"} /\ wk[0].skipped = 1

\* what the keep-structure claim asks of the destination after the page
KeptAsClaimed ==
    /\ \A c \in Collections : \A d \in dest[c] :
          /\ c = BUCKET
          /\ d._id = <<"id", source[d.src].id>>
          /\ d.tag = BUCKET
    /\ \A i \in 1..Len(source) : ~NestedMapping(source[i]) => HoldersOf(i) = {}

\* C26: keep-structure, in process_mechoice_keep_structure and in
\* add_documents as main.process_page calls it: every written document is in
\* the collection named after the source collection, has the record's id as
\* _id and carries the source-collection tag; a record whose nested value is
\* absent or cannot be parsed to a mapping is dropped.
C26_KeepStructure ==
    (RecordDone("keep_structure") \/ RecordDone("main_keep")) => KeptAsClaimed

\* the half of C26 about process_mechoice_keep_structure alone
C26_MechoiceHalf == RecordDone("keep_structure") => KeptAsClaimed

\* the groups of the finished call that hold a document built from row i
GroupsOf(i) ==
    {g \in 1..Len(wk[0].groups) :
        \E k \in 1..Len(wk[0].groups[g].docs) : wk[0].groups[g].docs[k].src = i}

\* the group the claim names for a row
GroupName(r) == IF Present(r.typekey) THEN r.typekey ELSE "Others"

\* C27: process_rms_data places each record whose nested value is a mapping in
\* exactly one group, named by the mapping's typekey or "Others" when that is
\* absent or empty, and writes each non-empty group to the collection of that
\* name.  (Records are rows of the source query, which carry an id.)
C27_GroupedByTypekey ==
    RecordDone("rms") =>
        /\ \A i \in 1..Len(source) :
              (NestedMapping(source[i]) /\ source[i].id # 0) =>
                  /\ Cardinality(GroupsOf(i)) = 1
                  /\ \A g \in GroupsOf(i) :
                        wk[0].groups[g].name = GroupName(source[i])
                  /\ HoldersOf(i) = {GroupName(source[i])}
        /\ \A g \in 1..Len(wk[0].groups) :
              /\ wk[0].groups[g].docs # << >>
              /\ \A k \in 1..Len(wk[0].groups[g].docs) :
                    wk[0].groups[g].docs[k] \in dest[wk[0].groups[g].name]
        /\ \A c \in Collections : \A d \in dest[c] :
              \E g \in GroupsOf(d.src) : wk[0].groups[g].name = c

C27_Witness ==
    /\ RecordDone("rms")
    /\ Len(source) = 2
    /\ NestedMapping(source[1]) /\ source[1].typekey = "FALSY"
    /\ Len(wk[0].groups) = 2
    /\ HoldersOf(1) = {"Others"} /\ HoldersOf(2) = {"K"}

\* C28: main.process_page returns (page, 0) only when the read produced no
\* data or a store operation failed; for a page with rows and a source and
\* destination without fault it returns (page, number of rows read), in the
\* keep-structure mode and in the grouped (RMS) mode.
C28_MainPageResult ==
    (mode = "job" /\ migration_type \in MainModes) =>
        \A p \in DOMAIN wk :
            (wk[p].pc = "done" /\ ~wk[p].escaped) =>
                /\ wk[p].result = 0 => (NoData(wk[p]) \/ wk[p].faulted)
                /\ (wk[p].page_data = "rows" /\ ~wk[p].faulted) =>
                        wk[p].result = Len(wk[p].data)

C32_EmptyBucketOnePage ==
    (mode = "job" /\ Len(source) = 0) =>
        /\ pc \notin {"counting", "aborted"} => total_pages = 1
        /\ submitted \in {<< >>, <<0>>}
        /\ total_processed = 0
        /\ pc = "done" =>
              /\ total_count = 0
              /\ submitted = <<0>>
              /\ wk[0].starts = 1 /\ wk[0].pc = "done"
              /\ failed_pages = <<0>>
              /\ summary.total_processed = 0
              /\ summary.failed_pages = <<0>>

C32_Witness ==
    /\ mode = "job" /\ Len(source) = 0 /\ migration_type = "main_keep"
    /\ pc = "done"
    /\ submitted = <<0>> /\ failed_pages = <<0>> /\ total_processed = 0
    /\ wk[0].result = 0

(***************************************************************************)
(* SpecConvert: MongoDBService._convert_doc_value applied to a nested      *)
(* value that is a string.  The text holds one numeric literal:            *)
(*   shape   "object"  "amount": <literal>, with or without the braces     *)
(*           "array"   [<literal>]                                          *)
(*           "scalar"  <literal>                                            *)
(*   braces  the object text starts with "{" and ends with "}"             *)
(*   space   there is whitespace between the colon and the literal         *)
(*   zeros   the number of zeros the literal starts with                   *)
(*   digits  digits other than zero follow them (0012 rather than 00)      *)
(*   broken  the text has another defect no pass repairs                   *)
(*   quoted  the literal stands between double quotes                      *)
(*   wrapped braces were put around a text that is no object               *)
(* wk[0] is the call: the text, the parse attempts made, the result.       *)
(***************************************************************************)
MaxZeros == 3    \* most leading zeros of the literal

JsonTexts ==
    {t \in [shape : {"object", "array", "scalar"}, braces : BOOLEAN,
            space : BOOLEAN, zeros : 0..MaxZeros, digits : BOOLEAN,
            broken : BOOLEAN, quoted : {FALSE}, wrapped : {FALSE}] :
        /\ t.zeros = 0 => t.digits
        /\ t.shape # "object" => (~t.braces /\ ~t.space)}

\* the literal is a JSON number: no leading zero, or the single digit 0
LiteralValid(t) == t.zeros = 0 \/ (t.zeros = 1 /\ ~t.digits)

\* json.loads(text): "error" for JSONDecodeError, else the parsed value, of
\* which the model keeps whether it is a mapping and what its literal became
JsonLoads(t) ==
    IF t.broken \/ t.wrapped \/ (~t.quoted /\ ~LiteralValid(t))
       \/ (t.shape = "object" /\ ~t.braces)
    THEN [kind |-> "error", amount |-> "", zeros |-> 0]
    ELSE [kind |-> IF t.shape = "object" THEN "mapping" ELSE "other",
          amount |-> IF t.quoted THEN "string" ELSE "number",
          zeros |-> t.zeros]

\* _normalize_json_string (lines 15-48): re.sub of (:\s+)(0{2,}\d*) puts
\* quotes around a literal of two or more zeros that follows a colon and
\* whitespace; a text that does not start with "{" is wrapped in braces
NormalizeJsonString(t) ==
    [t EXCEPT !.quoted = t.shape = "object" /\ t.space /\ t.zeros >= 2,
              !.braces = @ \/ t.shape = "object",
              !.wrapped = t.shape # "object"]

NoneResult == [kind |-> "None", amount |-> "", zeros |-> 0]

\* _convert_doc_value for a str (lines 346-361): the attempts made and the
\* value returned (the parsed mapping, or None)
ConvertString(t) ==
    LET direct == JsonLoads(t)
        normalized == JsonLoads(NormalizeJsonString(t))
    IN  IF direct.kind = "mapping"
        THEN [attempts |-> <<"direct">>, result |-> direct]
        ELSE IF direct.kind = "other"
        THEN [attempts |-> <<"direct">>, result |-> NoneResult]
        ELSE IF normalized.kind = "mapping"
        THEN [attempts |-> <<"direct", "normalized">>, result |-> normalized]
        ELSE [attempts |-> <<"direct", "normalized">>, result |-> NoneResult]

ConvertCall ==
    /\ mode = "convert"
    /\ wk[0].pc = "call"
    /\ wk' = [wk EXCEPT ![0] =
                 [wk[0] EXCEPT !.pc = "returned",
                               !.attempts = ConvertString(wk[0].doc_value).attempts,
                               !.result = ConvertString(wk[0].doc_value).result]]
    /\ UNCHANGED <<mode, source, readFail, countFails, total_count, page_size,
                   max_workers, migration_type, batch_size, pc, total_pages,
                   submitted, queue, collected, total_processed, failed_pages,
                   completed, summary, dest, dest0, nextOid, connFaults,
                   dedupFaults, rejects, terminal, run, firstRun, readFaults>>

ConvertInit ==
    /\ mode = "convert"
    /\ pc = "page"
    /\ InitCommon
    /\ source = << >>
    /\ page_size = 1
    /\ max_workers = 1
    /\ migration_type = "keep_structure"
    /\ batch_size = 1
    /\ readFail = {}
    /\ countFails = FALSE
    /\ dest0 = EmptyDest
    /\ dest = dest0
    /\ connFaults = 0
    /\ dedupFaults = 0
    /\ readFaults = 0
    /\ rejects = {}
    /\ terminal = {}
    /\ queue = << >>
    /\ \E t \in JsonTexts :
         wk = [p \in {0} |-> [pc |-> "call", doc_value |-> t,
                              attempts |-> << >>, result |-> NoneResult]]

ConvertNext == ConvertCall

SpecConvert == ConvertInit /\ [][ConvertNext]_vars

\* the only defect of the text is a numeric literal with leading zeros
OnlyLeadingZeros(t) ==
    t.shape = "object" /\ t.braces /\ ~t.broken /\ ~LiteralValid(t)

\* C33: for a nested value that is a string, _convert_doc_value first tries a
\* direct parse and normalizes only if that parse fails; the record is
\* dropped exactly when neither attempt yields a mapping; and a string whose
\* only defect is a numeric literal with leading zeros is accepted, with the
\* literal turned into the string of its digits.
C33_StringTolerance ==
    (mode = "convert" /\ wk[0].pc = "returned") =>
        LET t == wk[0].doc_value
            direct == JsonLoads(t)
        IN  /\ wk[0].attempts[1] = "direct"
            /\ Len(wk[0].attempts) = 2 <=> direct.kind = "error"
            /\ wk[0].result.kind = "None" <=>
                   /\ direct.kind # "mapping"
                   /\ ~(Len(wk[0].attempts) = 2
                         /\ JsonLoads(NormalizeJsonString(t)).kind = "mapping")
            /\ OnlyLeadingZeros(t) =>
                   /\ wk[0].result.kind = "mapping"
                   /\ wk[0].result.amount = "string"
                   /\ wk[0].result.zeros = t.zeros

\* the part of C33 that holds: the order of the attempts, when the value is
\* dropped, and the literals the pattern does match
C33_AsTheCodeDoes ==
    (mode = "convert" /\ wk[0].pc = "returned") =>
        LET t == wk[0].doc_value
            direct == JsonLoads(t)
        IN  /\ wk[0].attempts[1] = "direct"
            /\ Len(wk[0].attempts) = 2 <=> direct.kind = "error"
            /\ (OnlyLeadingZeros(t) /\ t.space /\ t.zeros >= 2) =>
                   /\ wk[0].result.kind = "mapping"
                   /\ wk[0].result.amount = "string"
                   /\ wk[0].result.zeros = t.zeros
            /\ (OnlyLeadingZeros(t) /\ ~(t.space /\ t.zeros >= 2)) =>
                   wk[0].result.kind = "None"

(***************************************************************************)
(* The order and the coverage of get_all_data_paginated (SpecReadAll).     *)
(***************************************************************************)
\* the offsets read are 0, page_size, 2 * page_size, ... and every yielded
\* page holds rows, the rows at its offset, and is yielded once
ReadInOrder ==
    LET f == wk[0]
    IN  /\ \A k \in 1..Len(f.offsets) : f.offsets[k] = (k - 1) * page_size
        /\ \A k \in 1..Len(f.yielded) :
              /\ f.yielded[k][2] # << >>
              /\ f.yielded[k][2] = RowsAt(f.yielded[k][1])
              /\ \A j \in 1..(k - 1) : f.yielded[j][1] < f.yielded[k][1]

\* the positions of the source rows the reads have passed
RowsPassed ==
    LET f == wk[0]
    IN  IF f.offsets = << >> THEN {}
        ELSE 1..Min(f.offsets[Len(f.offsets)] + page_size, Len(source))

\* the positions of the source rows that were yielded
RowsYieldedAt ==
    UNION {{wk[0].yielded[k][2][j].pos : j \in 1..Len(wk[0].yielded[k][2])} :
             k \in 1..Len(wk[0].yielded)}

\* C34: get_all_data_paginated reads the offsets 0, page_size, 2 * page_size,
\* ... in increasing order, yields each non-empty page once with its offset,
\* and every record that lies before the stopping point is yielded, also
\* when a page read fails after its retries.
C34_ReadAllComplete ==
    mode = "readall" =>
        /\ ReadInOrder
        /\ wk[0].pc = "stopped" => RowsPassed \subseteq RowsYieldedAt

\* the part of C34 that holds: the order, and the coverage when no page read
\* failed
C34_WithoutFailedReads ==
    mode = "readall" =>
        /\ ReadInOrder
        /\ (wk[0].pc = "stopped"
             /\ \A k \in 1..Len(wk[0].fetches) :
                   wk[0].fetches[k] = Len(RowsAt(wk[0].offsets[k])))
            => RowsPassed \subseteq RowsYieldedAt

(***************************************************************************)
(* The wait for the index (SpecPreflightLive).                             *)
(***************************************************************************)
\* C35: the wait for the primary index is bounded: create_index and
\* create_index_mechoice return after finitely many status polls even if the
\* index never becomes online.
C35_WaitBounded ==
    mode = "preflight" => <>(wk[0].pc \in {"returned", "migrating"})

\* what holds instead: the wait ends once the index is online and stays so
C35_ReturnsOnceOnline ==
    mode = "preflight" =>
        (<>[](wk[0].index = "online")
            => <>(wk[0].pc \in {"returned", "migrating"}))

(***************************************************************************)
(* Failed pages and what they leave behind (SpecPage).                     *)
(***************************************************************************)
\* the documents the page worker has added to the destination
WrittenByPage == UNION {dest[c] \ dest0[c] : c \in Collections}

\* C36: if a page worker returns (page, 0), so that the coordinator records
\* the page as failed, no document derived from that page's records has been
\* written to any destination collection.
C36_FailedPageWroteNothing ==
    (mode = "page" /\ run = 1 /\ wk[0].pc = "done" /\ wk[0].result = 0) =>
        WrittenByPage = {}

(***************************************************************************)
(* A chunk that used up its attempts (SpecOutage).                         *)
(***************************************************************************)
\* the strategy of page p went through its last chunk of its last group
ReachedLastChunk(p) ==
    /\ wk[p].gi = Len(wk[p].groups)
    /\ wk[p].ci + batch_size >= Len(wk[p].unique)

\* C37: when the bulk insert of a chunk exhausts its retries in a mechoice
\* strategy, the remaining chunks and destination groups of the page are
\* still attempted: the failure of one chunk does not abandon the rest.
C37_RestOfPageAttempted ==
    mode = "job" =>
        \A p \in DOMAIN wk :
            (wk[p].pc = "done" /\ Exhausted(p)) => ReachedLastChunk(p)

(***************************************************************************)
(* A failing membership query (SpecPage).                                  *)
(***************************************************************************)
\* the documents in the destination that were built from row i
CopiesOf(i) == UNION {{d \in dest[c] : d.src = i} : c \in Collections}

\* the rows whose document was in the destination before the page
HeldBefore == {d.src : d \in UNION {dest0[c] : c \in Collections}}

\* C38: if the membership query of the deduplicator fails, no document that
\* is already in the destination is written a second time, under its own or
\* any other _id, by the batch write that follows.  (A query that answers
\* filters such a document out, so only a failed query lets it reach the
\* batch write.)
C38_NoSecondCopy ==
    mode = "page" => \A i \in HeldBefore : Cardinality(CopiesOf(i)) = 1

(***************************************************************************)
(* The running total of the coordinator (Spec).                            *)
(***************************************************************************)
\* the pages whose worker has returned
ReturnedPages == {p \in DOMAIN wk : wk[p].pc = "done"}

\* C39: with the source unchanged from the count to the last page read (the
\* model never changes source), total_processed never exceeds total_count in
\* any reachable state of the coordinator, because every page contributes at
\* most page_size and the pages are disjoint windows of the bucket.
C39_TotalWithinCount ==
    (mode = "job" /\ pc \notin {"counting", "aborted"}) =>
        /\ total_processed <= total_count
        /\ \A p \in ReturnedPages :
              /\ wk[p].result <= page_size
              /\ wk[p].result <= Len(Window(p))

C39_Witness ==
    /\ mode = "job"
    /\ pc = "done"
    /\ total_pages = 2
    /\ total_processed = total_count
    /\ total_count = MaxTotal
    /\ wk[0].result = page_size
    /\ wk[1].result = MaxTotal - page_size

(***************************************************************************)
(* SpecUpsert: one call of CouchbaseDataAccess.upsert_documents            *)
(* (couchbase_dal.py lines 783-941) with the default max_retries and       *)
(* retry_delay.  wk[0] is the frame of the call:                            *)
(*   pc             "open", "doc" (top of the body of "for doc in batch"),  *)
(*                  "upsert" (top of "for attempt in range(max_retries)"),  *)
(*                  "return", "returned" or "raised",                       *)
(*   documents      the documents argument, one kind per document,          *)
(*   i, j           the batch start of the outer loop and the 1-based        *)
(*                  position of doc in the batch,                            *)
(*   attempt        the loop variable of the retry loop,                     *)
(*   total_upserted, skipped   the two counters,                             *)
(*   tries          per document, the collection.upsert calls made for it,   *)
(*   last           per document, how its last upsert call ended,            *)
(*   fate           per document, "pending", "upserted" or "skipped",        *)
(*   sleeps         the waits of time.sleep, in order,                       *)
(*   closed         self.close() of the finally clause has run,              *)
(*   result         the returned value, -1 before the return.                *)
(***************************************************************************)
\* the most documents handed to one call
MaxDocs == 2

\* max_retries: int = 3, retry_delay: int = 2 (line 784)
UPSERT_MAX_RETRIES == 3

UPSERT_RETRY_DELAY == 2

\* the kinds of an element of documents:
\*   "nondict"  not a dict (lines 825-828),
\*   "noid"     a dict without id, _id and key (lines 831-838),
\*   "novalue"  a dict with an id and no other field (lines 841-853),
\*   "deep"     a dict whose string value makes json.loads raise something
\*              other than ValueError, e.g. RecursionError (lines 860-868),
\*   "plain"    a dict with an id and a value
DocumentKinds == {"nondict", "noid", "novalue", "deep", "plain"}

\* how one collection.upsert call ends: it returns, raises a
\* CouchbaseException (AmbiguousTimeoutException is one), or raises any other
\* Exception
UpsertOutcomes == {"ok", "retryable", "other"}

\* batch = documents[i:i+batch_size]
BatchLen(f) == Min(batch_size, Len(f.documents) - f.i)

\* the index in documents (1-based) of the doc the frame is at
DocAt(f) == f.i + f.j

\* the end of the body of "for doc in batch": the next doc of the batch, the
\* first doc of the next batch, or the statements after the loops
NextDocument(f) ==
    IF f.j < BatchLen(f) THEN [f EXCEPT !.pc = "doc", !.j = @ + 1]
    ELSE IF f.i + batch_size < Len(f.documents)
    THEN [f EXCEPT !.pc = "doc", !.i = @ + batch_size, !.j = 1]
    ELSE [f EXCEPT !.pc = "return"]

\* mutant of SkippedAfter: a document whose upsert failed is not counted
SkippedNotCounted(skipped, upsert_success) == skipped

\* "if not upsert_success: skipped += 1" (lines 914-919)
SkippedAfter(skipped, upsert_success) ==
    IF upsert_success THEN skipped ELSE skipped + 1

\* wait_time = retry_delay * (attempt + 1) (line 888)
UpsertDelay(attempt) == UPSERT_RETRY_DELAY * (attempt + 1)

\* lines 799-819: connect, open the bucket, take its default collection; an
\* exception here (BucketNotFoundException, CouchbaseException) is logged and
\* re-raised by the handlers of lines 930-938 after the finally clause closed
\* the connection
UpsertOpen ==
    /\ mode = "upsert"
    /\ wk[0].pc = "open"
    /\ \E opened \in BOOLEAN :
         wk' = [wk EXCEPT ![0] =
                  IF ~opened
                  THEN [wk[0] EXCEPT !.pc = "raised", !.closed = TRUE]
                  ELSE IF wk[0].documents = << >>
                  THEN [wk[0] EXCEPT !.pc = "return"]
                  ELSE [wk[0] EXCEPT !.pc = "doc", !.i = 0, !.j = 1]]
    /\ UNCHANGED <<mode, source, readFail, countFails, total_count, page_size,
                   max_workers, migration_type, batch_size, pc, total_pages,
                   submitted, queue, collected, total_processed, failed_pages,
                   completed, summary, dest, dest0, nextOid, connFaults,
                   dedupFaults, rejects, terminal, run, firstRun, readFaults>>

\* lines 824-875: the checks and the conversion of one doc, up to the retry
\* loop; a doc that is no dict, has no id or no value, or whose conversion
\* raises (handler of lines 921-924) is counted as skipped and the loop goes on
UpsertPrepare ==
    /\ mode = "upsert"
    /\ wk[0].pc = "doc"
    /\ LET f == wk[0]
           k == DocAt(f)
       IN  wk' = [wk EXCEPT ![0] =
                    IF f.documents[k] = "plain"
                    THEN [f EXCEPT !.pc = "upsert", !.attempt = 0]
                    ELSE NextDocument([f EXCEPT !.skipped = @ + 1,
                                                !.fate[k] = "skipped"])]
    /\ UNCHANGED <<mode, source, readFail, countFails, total_count, page_size,
                   max_workers, migration_type, batch_size, pc, total_pages,
                   submitted, queue, collected, total_processed, failed_pages,
                   completed, summary, dest, dest0, nextOid, connFaults,
                   dedupFaults, rejects, terminal, run, firstRun, readFaults>>

\* lines 877-919: one iteration of "for attempt in range(max_retries)" and,
\* when the loop ends, the test of upsert_success
UpsertAttempt ==
    /\ mode = "upsert"
    /\ wk[0].pc = "upsert"
    /\ \E outcome \in UpsertOutcomes :
         LET f == wk[0]
             k == DocAt(f)
             g == [f EXCEPT !.tries[k] = @ + 1, !.last[k] = outcome]
         IN  wk' = [wk EXCEPT ![0] =
                      IF outcome = "ok"
                      THEN NextDocument(
                               [g EXCEPT !.total_upserted = @ + 1,
                                         !.skipped = SkippedAfter(@, TRUE),
                                         !.fate[k] = "upserted"])
                      ELSE IF outcome = "retryable"
                              /\ f.attempt < UPSERT_MAX_RETRIES - 1
                      THEN [g EXCEPT !.attempt = @ + 1,
                                     !.sleeps = Append(@, UpsertDelay(f.attempt))]
                      ELSE NextDocument(
                               [g EXCEPT !.skipped = SkippedAfter(@, FALSE),
                                         !.fate[k] = "skipped"])]
    /\ UNCHANGED <<mode, source, readFail, countFails, total_count, page_size,
                   max_workers, migration_type, batch_size, pc, total_pages,
                   submitted, queue, collected, total_processed, failed_pages,
                   completed, summary, dest, dest0, nextOid, connFaults,
                   dedupFaults, rejects, terminal, run, firstRun, readFaults>>

\* lines 928-929 and the finally clause (939-940): return total_upserted,
\* close
UpsertReturn ==
    /\ mode = "upsert"
    /\ wk[0].pc = "return"
    /\ wk' = [wk EXCEPT ![0] =
                [wk[0] EXCEPT !.pc = "returned", !.closed = TRUE,
                              !.result = wk[0].total_upserted]]
    /\ UNCHANGED <<mode, source, readFail, countFails, total_count, page_size,
                   max_workers, migration_type, batch_size, pc, total_pages,
                   submitted, queue, collected, total_processed, failed_pages,
                   completed, summary, dest, dest0, nextOid, connFaults,
                   dedupFaults, rejects, terminal, run, firstRun, readFaults>>

UpsertFrame(docs) ==
    [pc |-> "open", documents |-> docs, i |-> 0, j |-> 0, attempt |-> 0,
     total_upserted |-> 0, skipped |-> 0,
     tries |-> [k \in 1..Len(docs) |-> 0],
     last |-> [k \in 1..Len(docs) |-> "none"],
     fate |-> [k \in 1..Len(docs) |-> "pending"],
     sleeps |-> << >>, closed |-> FALSE, result |-> -1]

UpsertInit ==
    /\ mode = "upsert"
    /\ pc = "page"
    /\ InitCommon
    /\ source = << >>
    /\ page_size = 1
    /\ max_workers = 1
    /\ migration_type = "keep_structure"
    /\ batch_size \in 1..MaxChunk
    /\ readFail = {}
    /\ countFails = FALSE
    /\ dest0 = EmptyDest
    /\ dest = dest0
    /\ connFaults = 0
    /\ dedupFaults = 0
    /\ readFaults = 0
    /\ rejects = {}
    /\ terminal = {}
    /\ queue = << >>
    /\ \E n \in 0..MaxDocs : \E docs \in [1..n -> DocumentKinds] :
         wk = [p \in {0} |-> UpsertFrame(docs)]

UpsertNext == UpsertOpen \/ UpsertPrepare \/ UpsertAttempt \/ UpsertReturn

SpecUpsert == UpsertInit /\ [][UpsertNext]_vars

\* the documents of the call with a given fate
WithFate(f, fate) == {k \in 1..Len(f.documents) : f.fate[k] = fate}

\* the upsert of document k failed for good: its last call raised an error
\* that is not retried, or it raised a retryable one on the last attempt
FailedForGood(f, k) ==
    \/ f.last[k] = "other"
    \/ f.last[k] = "retryable" /\ f.tries[k] = UPSERT_MAX_RETRIES

\* C40: upsert_documents accounts for every input document exactly once: the
\* two counters count the upserted and the skipped documents and on a normal
\* return their sum is the number of input documents; collection.upsert is
\* called at most max_retries times for a document; a document whose attempts
\* all fail, or whose upsert raises an error that is not retried, is skipped
\* and the documents after it are still processed.
C40_UpsertAccounting ==
    mode = "upsert" =>
        LET f == wk[0] IN
        /\ f.total_upserted = Cardinality(WithFate(f, "upserted"))
        /\ f.skipped = Cardinality(WithFate(f, "skipped"))
        /\ \A k \in 1..Len(f.documents) :
              /\ f.tries[k] <= UPSERT_MAX_RETRIES
              /\ f.fate[k] = "upserted" => f.last[k] = "ok"
              /\ (f.fate[k] # "pending" /\ FailedForGood(f, k)) =>
                     f.fate[k] = "skipped"
        /\ f.pc = "returned" =>
              /\ f.total_upserted + f.skipped = Len(f.documents)
              /\ WithFate(f, "pending") = {}
              /\ f.result = f.total_upserted

C40_Witness ==
    /\ mode = "upsert"
    /\ wk[0].pc = "returned"
    /\ wk[0].documents = <<"plain", "plain">>
    /\ wk[0].tries = <<UPSERT_MAX_RETRIES, 1>>
    /\ wk[0].last = <<"retryable", "ok">>
    /\ wk[0].fate = <<"skipped", "upserted">>
    /\ wk[0].total_upserted = 1
    /\ wk[0].skipped = 1

====
